---- MODULE Spec2Model ----
(***************************************************************************)
(* The instantiation pipeline of Components.js: the constructor pool       *)
(* (ConfigConstructorPool.instantiate, getRawConfig, validateRawConfig),   *)
(* the preprocessor chain it consults and the constructions it starts.     *)
(*                                                                         *)
(* Execution model: one JavaScript executor.  `stack` holds the            *)
(* constructions whose createInstance call has not yet returned its        *)
(* promise (the synchronous part); a construction that has returned its    *)
(* promise is "pending" and continues in later turns of the event loop,    *)
(* which run only when the stack is empty.                                 *)
(***************************************************************************)
EXTENDS Integers, Sequences, FiniteSets, TLC

VARIABLES
    configPreprocessors, \* the pool's ordered preprocessor list (constructor option)
    instances,           \* the pool's cache: IRI -> slot
    cons,                \* IRI -> the promises created under that IRI, in creation order
    stack,               \* promises whose createInstance call is still on the call stack
    preRuns,             \* IRI -> number of getRawConfig runs for that IRI
    results,             \* IRI -> the values instantiate has handed to callers
    rawIn,               \* getRawConfig: the config last passed in
    rawOut,              \* getRawConfig: what the last run did and returned
    componentResources,  \* Loader: the component map, entries in insertion order
    moduleRef,           \* Loader: component IRI -> its property.module ("" if unset)
    parameters,          \* Loader: component IRI -> its properties.parameters
    objectFields,        \* Loader: constructor-arguments object -> its properties.fields
    configProperties,    \* Loader: config IRI -> parameter IRI -> the values the config holds for it
    registrationFinalized, \* Loader: the finalized flag
    objResources,        \* Loader: the module resources held by objectLoader
    streamPc,            \* Loader: the stream of the registerModuleResourcesStream call that awaits its import (NoStream if none)
    loaderInstances,     \* Loader: the instances cache, config IRI -> instance ("" if none)
    runTypeConfigs,      \* Loader: component IRI -> the configs that were run with that type
    creations,           \* Loader: the create() calls made on component factories, in order
    loaderOut,           \* Loader: the last completed call and how it ended
    loaderSettings,      \* Loader: the settings of the last instantiate call
    nCalls,              \* Loader: number of calls made so far
    stepIn,              \* override step: the list, target and value last passed in
    stepOut,             \* override step: the list it left in the config, or the error
    argIn,               \* UnnamedComponentFactory: the arguments of the component definition
    argOut,              \* UnnamedComponentFactory: what _makeArguments returned or threw
    lastCheck,           \* pool: the last outside call that was answered by the blacklist, variable or cache check
    factoryIn,           \* ComponentFactory: the config and component definition it was constructed with
    factoryOut,          \* ComponentFactory: the factory that create() delegated to
    heap                 \* instantiate on objects: the blacklist and settings objects, the cache, the running calls

poolVars == <<instances, cons, stack, preRuns, results>>
rawVars == <<rawIn, rawOut>>
loaderVars == <<componentResources, moduleRef, parameters, objectFields, configProperties,
                registrationFinalized,
                objResources, streamPc, loaderInstances, runTypeConfigs, creations,
                loaderOut, loaderSettings, nCalls>>
pureVars == <<stepIn, stepOut, argIn, argOut, lastCheck, factoryIn, factoryOut, heap>>
vars == <<configPreprocessors, instances, cons, stack, preRuns, results, rawIn, rawOut,
          loaderVars, pureVars>>

----------------------------------------------------------------------------
(* Bounds *)

\* longest parameter list an override step is applied to
MaxList == 3

\* most fields of an argument object
MaxFields == 2

\* Loader calls per behaviour
MaxCalls == 3

\* promises created under one IRI (the pool creates one; the cap stops a broken pool)
MaxCreate == 2
\* depth of the synchronous call stack
MaxDepth == 4
\* getRawConfig runs per IRI
MaxPreRuns == 2
\* length of a preprocessor list
MaxPre == 3

----------------------------------------------------------------------------
(* Resources *)

Absent == [type |-> "absent", value |-> ""]
Lit(v) == [type |-> "Literal", value |-> v]
Named(v) == [type |-> "NamedNode", value |-> v]

MkResource(iri, types, rn, re, rnc, args) ==
    [value |-> iri, types |-> types, requireName |-> rn, requireElement |-> re,
     requireNoConstructor |-> rnc, arguments |-> args]

NoResource == MkResource("", {}, Absent, Absent, Absent, <<>>)

\* The config IRIs of the checked graph.
\*   A -> B, V       B -> A, B      X: no requireName      V: a Variable
\* A and B form a cycle and B also refers to itself; A has no requireName of its
\* own and is typed so that two preprocessors can handle it.
IRIs == {"A", "B", "X", "V"}

ConfigResource(c) ==
    CASE c = "A" -> MkResource("A", {"T1", "T2"}, Absent, Lit("A"), Absent, <<"B", "V">>)
      [] c = "B" -> MkResource("B", {}, Lit("libB"), Absent, Absent, <<"A", "B">>)
      [] c = "X" -> MkResource("X", {}, Absent, Absent, Absent, <<>>)
      [] c = "V" -> MkResource("V", {"Variable"}, Absent, Absent, Absent, <<>>)

IsA(res, type) == type \in res.types

----------------------------------------------------------------------------
(* Preprocessors: the interface IConfigPreprocessor, with three test doubles *)

Preprocessors == {"first", "second", "strip"}

\* canHandle: a pure test of the config
CanHandle(p, config) ==
    CASE p = "first" -> "T1" \in config.types
      [] p = "second" -> "T2" \in config.types
      [] p = "strip" -> "T3" \in config.types

\* transform: rewrites the config (same identity) and returns it
Transform(p, config) ==
    CASE p = "first" -> [config EXCEPT !.requireName = Lit("one")]
      [] p = "second" -> [config EXCEPT !.requireName = Lit("two")]
      [] p = "strip" -> [config EXCEPT !.requireName = Absent]

----------------------------------------------------------------------------
(* validateRawConfig, getRawConfig *)

Valid == [ok |-> TRUE, field |-> "", reason |-> ""]
Invalid(field, reason) == [ok |-> FALSE, field |-> field, reason |-> reason]

\* a validateParam that takes every field for optional
ValidateParamAllOptional(config, field, type, optional) ==
    IF config[field].type = "absent" \/ config[field].type = type
    THEN Valid
    ELSE Invalid(field, "type")

ValidateParam(config, field, type, optional) ==
    IF config[field].type = "absent"
    THEN IF optional THEN Valid ELSE Invalid(field, "missing")
    ELSE IF config[field].type # type THEN Invalid(field, "type") ELSE Valid

ValidateRawConfig(rawConfig) ==
    LET a == ValidateParam(rawConfig, "requireName", "Literal", FALSE)
        b == ValidateParam(rawConfig, "requireElement", "Literal", TRUE)
        c == ValidateParam(rawConfig, "requireNoConstructor", "Literal", TRUE)
    IN  IF ~a.ok THEN a ELSE IF ~b.ok THEN b ELSE c

\* the { config } context of the ErrorResourcesContext that validateParam throws
ErrorContext(rawConfig) ==
    IF ValidateRawConfig(rawConfig).ok THEN NoResource ELSE rawConfig

\* One run of getRawConfig: the preprocessors whose canHandle was called
\* (consulted), those whose transform was called (applied), the resource handed
\* to validateRawConfig, its verdict (err), and the raw config that is returned
\* when the verdict is ok.
RunOf(raw, validated, consulted, applied) ==
    [raw |-> raw, err |-> ValidateRawConfig(validated), validated |-> validated,
     context |-> ErrorContext(validated),
     consulted |-> consulted, applied |-> applied]

ValidatedInput(config, rawConfig) == config

\* the argument of this.validateRawConfig(...) after a transform
ValidatedAfterTransform(config, rawConfig) == rawConfig

\* a chain in which the last preprocessor that can handle the config wins
RECURSIVE GetRawConfigLastWins(_, _, _)
GetRawConfigLastWins(pre, config, i) ==
    IF i > Len(pre)
    THEN RunOf(config, config, <<>>, <<>>)
    ELSE LET rest == GetRawConfigLastWins(pre, config, i + 1)
         IN  IF rest.applied # <<>> \/ ~CanHandle(pre[i], config)
             THEN [rest EXCEPT !.consulted = <<pre[i]>> \o @]
             ELSE LET rawConfig == Transform(pre[i], config)
                  IN  RunOf(rawConfig, ValidatedAfterTransform(config, rawConfig),
                            <<pre[i]>> \o rest.consulted, <<pre[i]>>)

\* the loop of getRawConfig from list position i on
RECURSIVE GetRawConfigFrom(_, _, _)
GetRawConfigFrom(pre, config, i) ==
    IF i > Len(pre)
    THEN RunOf(config, config, <<>>, <<>>)
    ELSE IF CanHandle(pre[i], config)
         THEN LET rawConfig == Transform(pre[i], config)
              IN  RunOf(rawConfig, ValidatedAfterTransform(config, rawConfig),
                        <<pre[i]>>, <<pre[i]>>)
         ELSE LET rest == GetRawConfigFrom(pre, config, i + 1)
              IN  [rest EXCEPT !.consulted = <<pre[i]>> \o @]

GetRawConfig(pre, config) == GetRawConfigFrom(pre, config, 1)

NoRun == [raw |-> NoResource, err |-> Valid, validated |-> NoResource,
          context |-> NoResource, consulted |-> <<>>, applied |-> <<>>]

----------------------------------------------------------------------------
(* Settings (IConstructionSettings) *)

\* hasBL: the settings object carries the key resourceBlacklist; bl: its value.
\* variables: the binding of the graph's one variable, "" when it has none.
MkSettings(hasBL, bl, variables) == [hasBL |-> hasBL, bl |-> bl, variables |-> variables]

\* The settings an outside caller passes: none; a variable binding with a
\* blacklist naming the invalid config; one with a blacklist naming a config of
\* the cycle.
TopSettings ==
    {MkSettings(FALSE, {}, ""), MkSettings(TRUE, {"X"}, "x"), MkSettings(TRUE, {"B"}, "x")}

----------------------------------------------------------------------------
(* Values: what a cache slot holds and what instantiate hands back *)

Val(kind, iri, n, value) == [kind |-> kind, iri |-> iri, n |-> n, value |-> value]

AbsentSlot == Val("absent", "", 0, "")
SentinelR == Val("sentinel", "", 0, "")
\* Promise.resolve(createUndefined())
UndefinedR == Val("undefined", "", 0, "")
\* Promise.resolve(getVariableValue(...))
VariableR(v) == Val("variable", "", 0, v)
\* the n-th promise created under IRI c
FutureR(c, n) == Val("future", c, n, "")
TopCaller == Val("top", "", 0, "")


----------------------------------------------------------------------------
(* Construction strategy *)

GetVariableValue(s, name) == IF s.variables = "" THEN "UndefinedVariable" ELSE s.variables

----------------------------------------------------------------------------
(* ConfigConstructorPool.instantiate *)

ResourceBlacklist(s) == IF s.hasBL THEN s.bl ELSE {}

IsBlacklistedNever(c, s) == FALSE

IsBlacklisted(c, s) == c \in ResourceBlacklist(s)

InCacheNever(c) == FALSE

\* a cache that forgets failed constructions
InCacheUnlessRejected(c) ==
    IF instances[c].kind = "future"
    THEN cons[instances[c].iri][instances[c].n].state # "rejected"
    ELSE instances[c].kind # "absent"

\* configResource.value in this.instances
InCache(c) == instances[c].kind # "absent"

SubBlackList(c, s) == ResourceBlacklist(s) \cup {c}

\* { resourceBlacklist: subBlackList, ...settings }: the spread comes last, so a
\* resourceBlacklist key of the incoming settings replaces subBlackList.
SubSettings(c, s) ==
    IF s.hasBL THEN s ELSE [s EXCEPT !.hasBL = TRUE, !.bl = SubBlackList(c, s)]

NoSentinel == AbsentSlot

\* this.instances[...] = <any> true
SentinelValue == SentinelR

ErrorNotCached(f) == AbsentSlot

\* this.instances[...] = Promise.reject(syncError)
ErrorSlot(f) == f

\* Promise.reject(syncError)
RejectedPromise(s) ==
    [state |-> "rejected", created |-> FALSE, s |-> s, raw |-> NoResource,
     argi |-> 0, kids |-> <<>>, caller |-> TopCaller, path |-> {}]

\* the promise of configConstructor.createInstance(rawConfig, subSettings),
\* while that call is on the stack
NewConstruction(s, raw, caller, path) ==
    [state |-> "sync", created |-> TRUE, s |-> s, raw |-> raw,
     argi |-> 0, kids |-> <<>>, caller |-> caller, path |-> path]

\* the IRIs really under construction on the call path of a caller
PathOf(cn, caller) == IF caller.kind = "top" THEN {} ELSE cn[caller.iri][caller.n].path

\* the value r reaches the caller: an awaiting construction collects it
AddKid(cn, caller, r) ==
    IF caller.kind = "top" THEN cn
    ELSE [cn EXCEPT ![caller.iri][caller.n].kids = Append(@, r)]

\* instantiate returns r to its caller
Hand(c, s, caller, cn, r) ==
    /\ cons' = AddKid(cn, caller, r)
    /\ results' = [results EXCEPT ![c] =
                      @ \cup {[r |-> r, bl |-> s.hasBL /\ c \in s.bl, key |-> s.hasBL]}]

\* checks that look into the cache before the blacklist and the variable type
EarlyReturnMemoFirst(res, s) ==
    IF InCache(res.value) THEN instances[res.value]
    ELSE IF IsBlacklisted(res.value, s) THEN UndefinedR
    ELSE IF IsA(res, "Variable") THEN VariableR(GetVariableValue(s, res.value))
    ELSE AbsentSlot

\* the checks instantiate makes before it constructs, in their order: what it
\* returns from them, AbsentSlot when none applies
EarlyReturn(res, s) ==
    IF IsBlacklisted(res.value, s) THEN UndefinedR
    ELSE IF IsA(res, "Variable") THEN VariableR(GetVariableValue(s, res.value))
    ELSE IF InCache(res.value) THEN instances[res.value]
    ELSE AbsentSlot

\* a pool that keeps what a check answered
StoredAfterCheck(c, r) == [instances EXCEPT ![c] = r]

\* this.instances after a return from one of the three checks: none of them
\* assigns to it
AfterCheck(c, r) == instances

\* instantiate(configResource c, settings s), up to the call of createInstance
Enter(c, s, caller, cn) ==
    IF EarlyReturn(ConfigResource(c), s) # AbsentSlot
    THEN /\ Hand(c, s, caller, cn, EarlyReturn(ConfigResource(c), s))
         /\ instances' = AfterCheck(c, EarlyReturn(ConfigResource(c), s))
         /\ UNCHANGED <<stack, preRuns>>
    ELSE LET run == GetRawConfig(configPreprocessors, ConfigResource(c))
             f == FutureR(c, Len(cn[c]) + 1)
         IN  /\ preRuns[c] < MaxPreRuns
             /\ Len(cn[c]) < MaxCreate
             /\ preRuns' = [preRuns EXCEPT ![c] = @ + 1]
             /\ IF ~run.err.ok
                THEN /\ instances' = [instances EXCEPT ![c] = ErrorSlot(f)]
                     /\ Hand(c, s, caller, [cn EXCEPT ![c] = Append(@, RejectedPromise(s))],
                             instances'[c])
                     /\ UNCHANGED stack
                ELSE /\ Len(stack) < MaxDepth
                     /\ instances' = [instances EXCEPT ![c] = SentinelValue]
                     /\ cons' = [cn EXCEPT ![c] = Append(@,
                            NewConstruction(s, run.raw, caller, PathOf(cn, caller) \cup {c}))]
                     /\ stack' = Append(stack, f)
                     /\ UNCHANGED results

\* an outside caller calls instantiate; it runs when no other code is running
Call ==
    /\ stack = <<>>
    /\ \E c \in IRIs, s \in TopSettings : Enter(c, s, TopCaller, cons)
    /\ UNCHANGED <<configPreprocessors, rawIn, rawOut, loaderVars, pureVars>>

Promises == {FutureR(c, n) : c \in IRIs, n \in 1..(MaxCreate + 1)}
Exists(f) == f.n <= Len(cons[f.iri])
Rec(f) == cons[f.iri][f.n]

\* createInstance resolves its next argument: a recursive call into the pool
\* with the sub-settings, either inside the createInstance call (f on top of the
\* stack) or in a later turn (f pending, nothing on the stack)
NestedCall ==
    /\ \E f \in Promises :
        /\ Exists(f)
        /\ Rec(f).created
        /\ IF stack # <<>> THEN stack[Len(stack)] = f ELSE Rec(f).state = "pending"
        /\ Rec(f).argi < Len(Rec(f).raw.arguments)
        /\ Enter(Rec(f).raw.arguments[Rec(f).argi + 1], SubSettings(f.iri, Rec(f).s), f,
                 [cons EXCEPT ![f.iri][f.n].argi = @ + 1])
    /\ UNCHANGED <<configPreprocessors, rawIn, rawOut, loaderVars, pureVars>>

\* createInstance returns its promise: the pool stores it in the cache and
\* returns the cache entry
ReturnPromise ==
    /\ stack # <<>>
    /\ LET f == stack[Len(stack)]
       IN  /\ stack' = SubSeq(stack, 1, Len(stack) - 1)
           /\ instances' = [instances EXCEPT ![f.iri] = f]
           /\ Hand(f.iri, Rec(f).s, Rec(f).caller,
                   [cons EXCEPT ![f.iri][f.n].state = "pending"], instances'[f.iri])
    /\ UNCHANGED <<preRuns, configPreprocessors, rawIn, rawOut, loaderVars, pureVars>>

\* an awaited value that is available
Settled(r) == IF r.kind = "future" THEN Rec(r).state \in {"resolved", "rejected"} ELSE TRUE
Failed(r) ==
    IF r.kind = "future" THEN Rec(r).state = "rejected"
    ELSE r.kind = "variable" /\ r.value = "UndefinedVariable"

\* all arguments are there: the strategy builds the instance, or fails
Complete ==
    /\ stack = <<>>
    /\ \E f \in Promises, built \in BOOLEAN :
        /\ Exists(f)
        /\ Rec(f).state = "pending"
        /\ Rec(f).argi = Len(Rec(f).raw.arguments)
        /\ \A i \in 1..Len(Rec(f).kids) : Settled(Rec(f).kids[i])
        /\ cons' = [cons EXCEPT ![f.iri][f.n].state =
                      IF built /\ \A i \in 1..Len(Rec(f).kids) : ~Failed(Rec(f).kids[i])
                      THEN "resolved" ELSE "rejected"]
    /\ UNCHANGED <<instances, stack, preRuns, results, configPreprocessors, rawIn, rawOut, loaderVars, pureVars>>

----------------------------------------------------------------------------
(* The pool *)

\* the preprocessor lists the checked pools are built with
PoolPreLists == {<<"first", "second">>, <<"second", "first">>}

\* every preprocessor list of at most MaxPre entries
RECURSIVE ListsUpTo(_)
ListsUpTo(n) ==
    IF n = 0 THEN {<<>>}
    ELSE LET shorter == ListsUpTo(n - 1)
         IN  shorter \cup {Append(l, p) : l \in {x \in shorter : Len(x) = n - 1},
                                            p \in Preprocessors}

Terms == {Absent, Lit("n"), Named("n")}

\* the configs getRawConfig is run on
RawInputs ==
    {MkResource("c", types, rn, re, rnc, <<>>) :
        types \in SUBSET {"T1", "T2", "T3"}, rn \in Terms, re \in Terms, rnc \in Terms}

----------------------------------------------------------------------------
(* Loader: component and module resources *)

\* The component resources of the checked graph: K1, K2 and K3 carry one of the
\* three component types, N carries none of them.
CompIRIs == {"K1", "K2", "K3", "N"}

\* Components that inherit in other shapes. CA and CB inherit from each other.
\* CC inherits from CT, which declares no parameter and inherits from CU; CU
\* shares the parameter pc with CC. CD inherits from CU and from CE, which
\* inherits from CU as well. CS inherits from itself and declares no parameter.
\* CM, CX, CY, CN and CZ carry constructor arguments.
InheritComps == {"CA", "CB", "CC", "CT", "CU", "CD", "CE", "CS", "CM", "CX", "CY", "CN", "CZ"}

\* Components whose parameters inherit values from the configs of other
\* components. CP's parameter pq inherits the values of pf from the configs of
\* CF; CW's parameter pw names no parameter to inherit; CL's parameter pl names
\* its component type by a literal.
ValueComps == {"CF", "CP", "CW", "CL"}

AllComps == CompIRIs \cup InheritComps \cup ValueComps

ComponentTypes(k) ==
    CASE k = "K1" -> {"Class"}
      [] k = "K2" -> {"AbstractClass"}
      [] k = "K3" -> {"ComponentInstance"}
      [] k = "N" -> {"Other"}
      [] k \in InheritComps \cup ValueComps -> {"Class"}

\* componentResource.properties.inheritValues
InheritValues(k) ==
    CASE k = "K1" -> <<"K2">>
      [] k = "K2" -> <<>>
      [] k = "K3" -> <<"N">>
      [] k = "N" -> <<>>
      [] k = "CA" -> <<"CB">>
      [] k = "CB" -> <<"CA">>
      [] k = "CC" -> <<"CT">>
      [] k = "CT" -> <<"CU">>
      [] k = "CD" -> <<"CU", "CE">>
      [] k = "CE" -> <<"CU">>
      [] k = "CS" -> <<"CS">>
      [] k \in {"CU", "CM", "CX", "CY", "CN", "CZ"} \cup ValueComps -> <<>>

\* componentResource.properties.parameters as loaded
InitialParameters(k) ==
    CASE k = "K1" -> <<"p1">>
      [] k = "K2" -> <<"p2">>
      [] k = "K3" -> <<>>
      [] k = "N" -> <<"pn">>
      [] k = "CA" -> <<"pa">>
      [] k = "CB" -> <<"pb">>
      [] k = "CC" -> <<"pc">>
      [] k = "CU" -> <<"pu", "pc">>
      [] k = "CD" -> <<"pd">>
      [] k = "CE" -> <<"pe">>
      [] k \in {"CT", "CS", "CM", "CX", "CY", "CN", "CZ"} -> <<>>
      [] k = "CF" -> <<"pf">>
      [] k = "CP" -> <<"pq">>
      [] k = "CW" -> <<"pw">>
      [] k = "CL" -> <<"pl">>

\* parameter.properties.inheritValues
ParameterInheritValues(parameter) ==
    CASE parameter = "pq" -> <<"c0", "r1">>
      [] parameter = "pw" -> <<"r2">>
      [] parameter = "pl" -> <<"r3">>
      [] OTHER -> <<>>

\* one of clazz.properties.types is owl:Restriction
IsRestriction(clazz) == clazz \in {"r1", "r2", "r3"}

\* restriction.properties.from
RestrictionFrom(restriction) ==
    CASE restriction = "r1" -> <<Named("K3"), Named("CF")>>
      [] restriction = "r2" -> <<Named("CF")>>
      [] restriction = "r3" -> <<Lit("CF")>>
      [] OTHER -> <<>>

\* restriction.properties.onParameter
RestrictionOnParameter(restriction) ==
    CASE restriction = "r1" -> <<"pf">>
      [] restriction = "r3" -> <<"pf">>
      [] OTHER -> <<>>

\* the parameters that configs hold values for
ValueParameters == {"pf"}

\* componentResource.property.constructorArguments: absent, a resource that is
\* no RDF list, or a list of objects
NoConstructorArguments == [kind |-> "absent", list |-> <<>>]
ConstructorList(objects) == [kind |-> "list", list |-> objects]

ConstructorArguments(k) ==
    CASE k = "CM" -> ConstructorList(<<"o1", "o0">>)
      [] k = "CX" -> ConstructorList(<<"o1", "ox">>)
      [] k = "CY" -> ConstructorList(<<"oy">>)
      [] k = "CN" -> [kind |-> "resource", list |-> <<>>]
      [] k = "CZ" -> ConstructorList(<<"oc1">>)
      [] OTHER -> NoConstructorArguments

\* The objects of the constructor arguments and the objects they inherit from.
\* o1 inherits from o2, which shares the field f1 with it and inherits from the
\* ObjectMapping o3; o0 inherits nothing; ox inherits from bad, which has
\* nothing; oy inherits from o3, from o4, which has an onParameter only, and
\* from o5, which only inherits from o2; oc1 and oc2 inherit from each other.
Objects == {"o0", "o1", "o2", "o3", "o4", "o5", "ox", "oy", "bad", "oc1", "oc2"}

\* object.properties.inheritValues
ObjectInheritValues(o) ==
    CASE o = "o1" -> <<"o2">>
      [] o = "o2" -> <<"o3">>
      [] o = "o5" -> <<"o2">>
      [] o = "ox" -> <<"bad">>
      [] o = "oy" -> <<"o3", "o4", "o5">>
      [] o = "oc1" -> <<"oc2">>
      [] o = "oc2" -> <<"oc1">>
      [] OTHER -> <<>>

\* object.properties.fields as loaded
InitialFields(o) ==
    CASE o = "o0" -> <<"f0">>
      [] o = "o1" -> <<"f1">>
      [] o = "o2" -> <<"f1", "f2">>
      [] o = "oc1" -> <<"g1">>
      [] o = "oc2" -> <<"g2">>
      [] OTHER -> <<>>

\* superObject.isA(om:ObjectMapping)
IsObjectMapping(o) == o = "o3"

\* superObject.property.onParameter
HasOnParameter(o) == o = "o4"

\* The frames the call stack has room for: more than a walk along inheritValues
\* without a cycle needs (the longest one of the checked graph takes 3).
StackLimit == 8

\* The module resources: M3 has neither components nor imports, M4 has imports only.
Modules == {"M1", "M2", "M3", "M4"}

ModuleComponents(m) ==
    CASE m = "M1" -> <<"K1", "K2">>
      [] m = "M2" -> <<"K2", "N", "K3">>
      [] m = "M3" -> <<>>
      [] m = "M4" -> <<>>
      [] m = "M5" -> <<"CF", "CP", "CW", "CL">>

ModuleHasImports(m) == m = "M4"

\* The config resources given to the Loader: G1 declares one type, G2 and GR
\* two, G0 a type that is never registered; GR has a requireName; LV is a
\* Variable.
LConfigs == {"G1", "G2", "G0", "GR", "LV"}

\* The configs of the components whose parameters inherit values: GF holds a
\* value for pf, the others hold none.
ValueConfigs == {"GF", "GP", "GW", "GL", "GT"}

AllConfigs == LConfigs \cup ValueConfigs

LConfigTypes(g) ==
    CASE g = "G1" -> <<"K1">>
      [] g = "G2" -> <<"K1", "K2">>
      [] g = "G0" -> <<"N">>
      [] g = "GR" -> <<"K2", "K1">>
      [] g = "LV" -> <<"Variable">>
      [] g = "GF" -> <<"CF">>
      [] g = "GP" -> <<"CP">>
      [] g = "GW" -> <<"CW">>
      [] g = "GL" -> <<"CL">>
      [] g = "GT" -> <<"CF">>

\* configResource.properties[parameter] as loaded
InitialValues(g, parameter) ==
    IF g = "GF" /\ parameter = "pf" THEN <<"v1">> ELSE <<>>

LConfigHasRequireName(g) == g = "GR"

LConfigHasRequireElement(g) == FALSE

\* The triple streams: the module resources each one holds, in document order.
Streams == {"S0", "S1", "S2"}

StreamModules(s) ==
    CASE s = "S0" -> <<>>
      [] s = "S1" -> <<"M1">>
      [] s = "S2" -> <<"M2", "M1">>

\* a component type test that takes every resource
IsValidComponentAlways(k) == TRUE

IsValidComponent(k) ==
    \/ "AbstractClass" \in ComponentTypes(k)
    \/ "Class" \in ComponentTypes(k)
    \/ "ComponentInstance" \in ComponentTypes(k)

\* the keys of the component map, in insertion order
Keys(cr) == [i \in 1..Len(cr) |-> cr[i].key]

HasKey(cr, key) == \E i \in 1..Len(cr) : cr[i].key = key

Lookup(cr, key) ==
    IF HasKey(cr, key)
    THEN (CHOOSE e \in {cr[i] : i \in 1..Len(cr)} : e.key = key).resource
    ELSE ""

\* this.componentResources[key] = resource
Put(cr, key, resource) ==
    IF HasKey(cr, key)
    THEN [i \in 1..Len(cr) |->
            IF cr[i].key = key THEN [key |-> key, resource |-> resource] ELSE cr[i]]
    ELSE Append(cr, [key |-> key, resource |-> resource])

\* What a Loader call leaves behind: the loader fields it may write and the
\* error it threw ("" when it returned).
\* val is the value a call returns, info the detail of its error message.
\* of are the fields of the constructor-arguments objects, depth the number of
\* frames of the recursive walk that are on the call stack.
\* cv are the values the configs hold for the parameters.
LoaderState(cr, mr, ps, fin, inst, rtc, made, of, cv) ==
    [cr |-> cr, mr |-> mr, ps |-> ps, fin |-> fin, inst |-> inst, rtc |-> rtc,
     made |-> made, of |-> of, cv |-> cv, depth |-> 0, err |-> "", val |-> "", info |-> <<>>]

Current ==
    LoaderState(componentResources, moduleRef, parameters, registrationFinalized,
                loaderInstances, runTypeConfigs, creations, objectFields, configProperties)

Throw(st, err) == [st EXCEPT !.err = err]

\* a loader that accepts registrations after it was finalized
FinalizedGuardOff(st) == FALSE

\* if (this.registrationFinalized)
FinalizedGuard(st) == st.fin

RegisterComponentResourceOn(st, k) ==
    IF FinalizedGuard(st) THEN Throw(st, "finalized")
    ELSE IF ~IsValidComponent(k) THEN Throw(st, "invalidComponent")
    ELSE [st EXCEPT !.cr = Put(st.cr, k, k)]

\* a back-reference that is set only on a component that passes the validation
SetModuleIfValid(st, k, m) == IF IsValidComponent(k) THEN [st EXCEPT !.mr[k] = m] ELSE st

\* component.property.module = moduleResource
SetModule(st, k, m) == [st EXCEPT !.mr[k] = m]

\* the forEach over moduleResource.properties.components, from position i on
RECURSIVE RegisterComponentsFrom(_, _, _, _)
RegisterComponentsFrom(st, m, comps, i) ==
    IF i > Len(comps) \/ st.err # ""
    THEN st
    ELSE RegisterComponentsFrom(
            RegisterComponentResourceOn(SetModule(st, comps[i], m), comps[i]),
            m, comps, i + 1)

RegisterModuleResourceOn(st, m) ==
    IF FinalizedGuard(st) THEN Throw(st, "finalized")
    ELSE IF ModuleComponents(m) # <<>>
         THEN RegisterComponentsFrom(st, m, ModuleComponents(m), 1)
         ELSE IF ~ModuleHasImports(m) THEN Throw(st, "noComponents") ELSE st

\* the loop of registerModuleResourcesStream over objectLoader.resources
RECURSIVE RegisterModulesFrom(_, _, _)
RegisterModulesFrom(st, mods, i) ==
    IF i > Len(mods) \/ st.err # ""
    THEN st
    ELSE RegisterModulesFrom(RegisterModuleResourceOn(st, mods[i]), mods, i + 1)

Includes(seq, x) == \E i \in 1..Len(seq) : seq[i] = x

\* the forEach that pushes the parameters of component onto those of k
RECURSIVE PushParameters(_, _, _)
PushParameters(own, from, i) ==
    IF i > Len(from)
    THEN own
    ELSE PushParameters(IF Includes(own, from[i]) THEN own ELSE Append(own, from[i]),
                        from, i + 1)

\* a recursive call when the stack is full throws a RangeError
StackFull(st) == st.depth >= StackLimit

\* a walk that goes on to the inheritValues of a component without parameters
HasParametersAlways(st, component) == TRUE

\* if (component.property.parameters)
HasParameters(st, component) == st.ps[component] # <<>>

\* inheritParameters(k, list) from position i of list on; st.ps are the
\* parameter lists as they stand.
RECURSIVE InheritParameters(_, _, _, _)
InheritParameters(st, k, list, i) ==
    IF i > Len(list) \/ st.err # ""
    THEN st
    ELSE LET component == list[i]
         IN  IF ~IsValidComponent(component)
             THEN Throw(st, "invalidComponent")
             ELSE IF HasParameters(st, component)
                  THEN LET pushed == [st EXCEPT !.ps[k] = PushParameters(@, st.ps[component], 1)]
                           deep == IF StackFull(pushed)
                                   THEN Throw(pushed, "stackOverflow")
                                   ELSE [InheritParameters([pushed EXCEPT !.depth = @ + 1], k,
                                                           InheritValues(component), 1)
                                            EXCEPT !.depth = st.depth]
                       IN  InheritParameters(deep, k, list, i + 1)
                  ELSE InheritParameters(st, k, list, i + 1)

\* a check that takes every object
MalformedMappingNever(superObject) == FALSE

\* !superObject.isA(om:ObjectMapping) && !superObject.property.inheritValues
\*   && !superObject.property.onParameter
MalformedMapping(superObject) ==
    /\ ~IsObjectMapping(superObject)
    /\ ObjectInheritValues(superObject) = <<>>
    /\ ~HasOnParameter(superObject)

\* inheritObjectFields(object, list) from position i of list on; st.of are the
\* fields as they stand.
RECURSIVE InheritObjectFields(_, _, _, _)
InheritObjectFields(st, object, list, i) ==
    IF i > Len(list) \/ st.err # ""
    THEN st
    ELSE LET superObject == list[i]
             own == IF st.of[superObject] # <<>>
                    THEN [st EXCEPT !.of[object] = PushParameters(@, st.of[superObject], 1)]
                    ELSE IF MalformedMapping(superObject)
                         THEN Throw(st, "malformedMapping")
                         ELSE st
             deep == IF own.err # "" \/ ObjectInheritValues(superObject) = <<>>
                     THEN own
                     ELSE IF StackFull(own)
                          THEN Throw(own, "stackOverflow")
                          ELSE [InheritObjectFields([own EXCEPT !.depth = @ + 1], object,
                                                    ObjectInheritValues(superObject), 1)
                                   EXCEPT !.depth = st.depth]
         IN  InheritObjectFields(deep, object, list, i + 1)

\* the forEach of inheritConstructorParameters over constructorArguments.list
RECURSIVE InheritObjectsFrom(_, _, _)
InheritObjectsFrom(st, objects, i) ==
    IF i > Len(objects) \/ st.err # ""
    THEN st
    ELSE InheritObjectsFrom(
            IF ObjectInheritValues(objects[i]) # <<>>
            THEN InheritObjectFields(st, objects[i], ObjectInheritValues(objects[i]), 1)
            ELSE st,
            objects, i + 1)

InheritConstructorParameters(st, k) ==
    IF ConstructorArguments(k).kind = "absent" THEN st
    ELSE IF ConstructorArguments(k).kind # "list" THEN Throw(st, "notRdfList")
    ELSE InheritObjectsFrom(st, ConstructorArguments(k).list, 1)

\* the loop of finalizeRegistration over Object.values(this.componentResources)
RECURSIVE InheritAllFrom(_, _)
InheritAllFrom(st, i) ==
    IF i > Len(st.cr) \/ st.err # ""
    THEN st
    ELSE LET k == st.cr[i].resource
             inherited == InheritParameters(st, k, InheritValues(k), 1)
         IN  InheritAllFrom(IF inherited.err # "" THEN inherited
                            ELSE InheritConstructorParameters(inherited, k), i + 1)

\* a finalizeRegistration that may be repeated
AlreadyFinalizedNever(st) == FALSE

AlreadyFinalized(st) == st.fin

FinalizeRegistrationOn(st) ==
    IF AlreadyFinalized(st)
    THEN Throw(st, "alreadyFinalized")
    ELSE LET done == InheritAllFrom(st, 1)
         IN  IF done.err # "" THEN done ELSE [done EXCEPT !.fin = TRUE]

\* a checkFinalizeRegistration without its test
NeedsFinalizeAlways(st) == TRUE

\* if (!this.registrationFinalized)
NeedsFinalize(st) == ~st.fin

\* a check that never finalizes
NoFinalizeCheck(st) == st

CheckFinalizeRegistrationOn(st) ==
    IF NeedsFinalize(st) THEN FinalizeRegistrationOn(st) ELSE st

\* ICreationSettings as the Loader reads them: resourceBlacklist (hasBL: the
\* key is present), the value that variables binds to the variable LV ("" when
\* variables is absent or has no entry for it), serializations, asFunction.
MkLSettings(hasBL, bl, binding, serializations, asFunction) ==
    [hasBL |-> hasBL, bl |-> bl, binding |-> binding,
     serializations |-> serializations, asFunction |-> asFunction]

LoaderSettings ==
    {MkLSettings(FALSE, {}, "", FALSE, FALSE),
     MkLSettings(FALSE, {}, "x", FALSE, FALSE),
     MkLSettings(FALSE, {}, "y", FALSE, FALSE),
     MkLSettings(TRUE, {"LV", "G1"}, "x", FALSE, FALSE),
     MkLSettings(FALSE, {}, "x", TRUE, TRUE),
     MkLSettings(FALSE, {}, "x", TRUE, FALSE)}

IsVariable(g) == Includes(LConfigTypes(g), "Variable")

\* the reduce of getConfigConstructor from position i of the declared types
\* on: the registered component of each type is collected (in st.val) and the
\* config is pushed onto runTypeConfigs under it
RECURSIVE CollectTypes(_, _, _, _)
CollectTypes(st, g, types, i) ==
    IF i > Len(types)
    THEN st
    ELSE LET componentResource == Lookup(st.cr, types[i])
         IN  IF componentResource # ""
             THEN CollectTypes([st EXCEPT !.val = Append(@, componentResource),
                                          !.rtc[componentResource] = Append(@, g)],
                               g, types, i + 1)
             ELSE CollectTypes(st, g, types, i + 1)

\* a resolution that takes the first registered type when there are several
AmbiguousNever(n, g) == FALSE

\* componentTypes.length !== 1 && !requireName && !requireElement
Ambiguous(n, g) ==
    n # 1 /\ ~LConfigHasRequireName(g) /\ ~LConfigHasRequireElement(g)

\* a value inheritance that leaves the component's parameter list alone
KnownParameterAlways(st, k, parentParameter) == TRUE

\* componentResource.properties.parameters.includes(parentParameter)
KnownParameter(st, k, parentParameter) == Includes(st.ps[k], parentParameter)

\* the forEach over restriction.properties.onParameter for one instance, from
\* position i on: the values of the instance are copied to the config g and
\* the parameter is added to the parameters of the component k
RECURSIVE CopyValuesFrom(_, _, _, _, _, _)
CopyValuesFrom(st, g, k, instance, onParameter, i) ==
    IF i > Len(onParameter)
    THEN st
    ELSE LET parentParameter == onParameter[i]
         IN  CopyValuesFrom(
                IF parentParameter \in ValueParameters /\ st.cv[instance][parentParameter] # <<>>
                THEN LET copied == [st EXCEPT !.cv[g][parentParameter] =
                                        @ \o st.cv[instance][parentParameter]]
                     IN  IF KnownParameter(copied, k, parentParameter)
                         THEN copied
                         ELSE [copied EXCEPT !.ps[k] = Append(@, parentParameter)]
                ELSE st,
                g, k, instance, onParameter, i + 1)

\* the forEach over the configs that were run with one component type
RECURSIVE CopyInstancesFrom(_, _, _, _, _, _)
CopyInstancesFrom(st, g, k, typeInstances, onParameter, i) ==
    IF i > Len(typeInstances)
    THEN st
    ELSE CopyInstancesFrom(CopyValuesFrom(st, g, k, typeInstances[i], onParameter, 1),
                           g, k, typeInstances, onParameter, i + 1)

\* the forEach over restriction.properties.from
RECURSIVE InheritFromTypes(_, _, _, _, _, _)
InheritFromTypes(st, g, k, from, onParameter, i) ==
    IF i > Len(from) \/ st.err # ""
    THEN st
    ELSE IF from[i].type # "NamedNode"
         THEN Throw(st, "literalComponentType")
         ELSE InheritFromTypes(
                CopyInstancesFrom(st, g, k, st.rtc[from[i].value], onParameter, 1),
                g, k, from, onParameter, i + 1)

\* the forEach over the owl:Restrictions among the inheritValues of a parameter
RECURSIVE InheritRestrictions(_, _, _, _, _)
InheritRestrictions(st, g, k, classes, i) ==
    IF i > Len(classes) \/ st.err # ""
    THEN st
    ELSE InheritRestrictions(
            IF IsRestriction(classes[i]) /\ RestrictionFrom(classes[i]) # <<>>
            THEN IF RestrictionOnParameter(classes[i]) = <<>>
                 THEN Throw(st, "noOnParameter")
                 ELSE InheritFromTypes(st, g, k, RestrictionFrom(classes[i]),
                                       RestrictionOnParameter(classes[i]), 1)
            ELSE st,
            g, k, classes, i + 1)

\* inheritParameterValues(g, k): the forEach over the parameters the component
\* had when the call began, from position i on
RECURSIVE InheritParameterValues(_, _, _, _, _)
InheritParameterValues(st, g, k, list, i) ==
    IF i > Len(list) \/ st.err # ""
    THEN st
    ELSE InheritParameterValues(
            InheritRestrictions(st, g, k, ParameterInheritValues(list[i]), 1),
            g, k, list, i + 1)

\* getConfigConstructor: st.val of the result is the component of the returned
\* factory ("" when the factory has none).
GetConfigConstructorOn(st, g) ==
    LET col == CollectTypes([st EXCEPT !.val = <<>>], g, LConfigTypes(g), 1)
        componentTypes == col.val
    IN  IF Ambiguous(Len(componentTypes), g)
        THEN [Throw(col, "ambiguousTypes") EXCEPT !.val = "", !.info = LConfigTypes(g)]
        ELSE IF Len(componentTypes) > 0
             THEN IF col.mr[componentTypes[1]] = ""
                  THEN [Throw(col, "noModule") EXCEPT !.val = ""]
                  ELSE LET inherited == InheritParameterValues(
                                            col, g, componentTypes[1], col.ps[componentTypes[1]], 1)
                       IN  IF inherited.err # ""
                           THEN [inherited EXCEPT !.val = ""]
                           ELSE [inherited EXCEPT !.val = componentTypes[1]]
             ELSE [col EXCEPT !.val = ""]

\* the settings handed to create: { resourceBlacklist: subBlackList, ...settings }
LoaderSubSettings(g, s) ==
    IF s.hasBL THEN s ELSE [s EXCEPT !.hasBL = TRUE, !.bl = s.bl \cup {g}]

\* the config whose construction throws (its module cannot be required)
CreateThrows(config) == config = "GT"

\* ComponentFactory.create: one construction, named after what it constructs
Create(st, config, component, s) ==
    IF CreateThrows(config)
    THEN Throw(st, "createFailed")
    ELSE [st EXCEPT !.made = Append(@, [config |-> config, component |-> component,
                                       settings |-> s]),
                    !.val = IF config # "" THEN config ELSE component]

\* a loader that keeps the error of a failed call in the cache
ThrownCached(st, g) == [st EXCEPT !.inst[g] = "error"]

\* getConfigConstructor or create threw: the assignment to this.instances is
\* not reached
Thrown(st, g) == st

\* a variable lookup that returns the binding of any call in compilation too
SerializingNever(s) == FALSE

Serializing(s) == s.serializations

\* Loader.instantiate; the whole body runs before the call returns its promise
InstantiateOn(st, g, s) ==
    IF s.hasBL /\ g \in s.bl
    THEN [st EXCEPT !.val = "{}"]
    ELSE IF IsVariable(g)
    THEN IF Serializing(s)
         THEN IF s.asFunction
              THEN [st EXCEPT !.val = "getVariableValue('LV')"]
              ELSE Throw(st, "variableInCompilation")
         ELSE IF s.binding = ""
              THEN Throw(st, "undefinedVariable")
              ELSE [st EXCEPT !.val = s.binding]
    ELSE IF st.inst[g] = ""
    THEN LET factory == GetConfigConstructorOn(st, g)
         IN  IF factory.err # ""
             THEN Thrown(factory, g)
             ELSE LET made == Create(factory, g, factory.val, LoaderSubSettings(g, s))
                  IN  IF made.err # ""
                      THEN Thrown(made, g)
                      ELSE [made EXCEPT !.inst[g] = made.val]
    ELSE [st EXCEPT !.val = st.inst[g]]

\* an instantiateManually that constructs before it looks the component up
UnknownComponentNever(componentResource) == FALSE

\* if (!componentResource)
UnknownComponent(componentResource) == componentResource = ""

InstantiateManuallyOn(st, componentUri, s) ==
    LET fin == CheckFinalizeRegistrationOn(st)
        componentResource == Lookup(fin.cr, componentUri)
    IN  IF fin.err # "" THEN fin
        ELSE IF UnknownComponent(componentResource) THEN Throw(fin, "unknownComponent")
        ELSE IF componentResource # "" /\ fin.mr[componentResource] = "" THEN Throw(fin, "noModule")
        ELSE Create(fin, "", componentUri, s)

\* no registerModuleResourcesStream call is waiting; a waiting call holds its
\* stream and whether the loader was finalized when the call was made
NoStream == [stream |-> "", fin |-> FALSE]

NoCall == [op |-> "", arg |-> "", err |-> "", val |-> "", info |-> <<>>,
           n |-> 0, fin |-> FALSE]

InitLoader ==
    /\ componentResources = <<>>
    /\ moduleRef = [k \in AllComps |-> ""]
    /\ parameters = [k \in AllComps |-> InitialParameters(k)]
    /\ objectFields = [o \in Objects |-> InitialFields(o)]
    /\ configProperties = [g \in AllConfigs |-> [q \in ValueParameters |-> InitialValues(g, q)]]
    /\ registrationFinalized = FALSE
    /\ objResources = <<>>
    /\ streamPc = NoStream
    /\ loaderInstances = [g \in AllConfigs |-> ""]
    /\ runTypeConfigs = [k \in AllComps |-> <<>>]
    /\ creations = <<>>
    /\ loaderOut = NoCall
    /\ loaderSettings = MkLSettings(FALSE, {}, "", FALSE, FALSE)
    /\ nCalls = 0

----------------------------------------------------------------------------
(* Override step OverrideListInsertAfter *)

\* all sequences over S of length up to n
RECURSIVE SeqsUpTo(_, _)
SeqsUpTo(S, n) ==
    IF n = 0
    THEN {<<>>}
    ELSE LET shorter == SeqsUpTo(S, n - 1)
         IN  shorter \cup {Append(l, x) : l \in {s \in shorter : Len(s) = n - 1}, x \in S}

\* an override value: one term, or a list of terms
Single(v) == [isList |-> FALSE, items |-> <<v>>]
ListValue(items) == [isList |-> TRUE, items |-> items]

\* the terms a step splices in
ValueItems(value) == value.items

\* a step that inserts before the target
InsertBeforeFrom(list, target, value, i) ==
    IF \E j \in i..Len(list) : list[j] = target
    THEN LET k == CHOOSE j \in i..Len(list) :
                    list[j] = target /\ \A h \in i..(j - 1) : list[h] # target
         IN  [err |-> "", list |-> SubSeq(list, 1, k - 1) \o ValueItems(value)
                                   \o SubSeq(list, k, Len(list))]
    ELSE [err |-> "targetNotFound", list |-> list]

\* a step that inserts after the last occurrence of the target
InsertAfterLastFrom(list, target, value, i) ==
    IF \E j \in i..Len(list) : list[j] = target
    THEN LET k == CHOOSE j \in i..Len(list) :
                    list[j] = target /\ \A h \in (j + 1)..Len(list) : list[h] # target
         IN  [err |-> "", list |-> SubSeq(list, 1, k) \o ValueItems(value)
                                   \o SubSeq(list, k + 1, Len(list))]
    ELSE [err |-> "targetNotFound", list |-> list]

\* the step's handle: the list is searched from position i on for the target,
\* and the value's terms are spliced in behind the position that is found
RECURSIVE InsertAfterFrom(_, _, _, _)
InsertAfterFrom(list, target, value, i) ==
    IF i > Len(list)
    THEN [err |-> "targetNotFound", list |-> list]
    ELSE IF list[i] = target
         THEN [err |-> "",
               list |-> [j \in 1..(Len(list) + Len(ValueItems(value))) |->
                            IF j <= i THEN list[j]
                            ELSE IF j <= i + Len(ValueItems(value))
                                 THEN ValueItems(value)[j - i]
                                 ELSE list[j - Len(ValueItems(value))]]]
         ELSE InsertAfterFrom(list, target, value, i + 1)

OverrideListInsertAfter(list, target, value) == InsertAfterFrom(list, target, value, 1)

\* the list of the unit test, and the lists, targets and values that are tried
TestList == <<"list1", "list2", "list3", "list4">>

StepLists == SeqsUpTo({"list1", "list2", "list4"}, MaxList) \cup {TestList}

StepTargets == {"list1", "list2", "list4"}

StepValues ==
    {Single("newList"), Single("newList2")}
    \cup {ListValue(l) : l \in SeqsUpTo({"newList", "newList2"}, 2)}

----------------------------------------------------------------------------
(* UnnamedComponentFactory: getArgumentValue, _makeArguments *)

\* An argument value as getArgumentValue reads it. kind: "fields" (value.fields
\* is set, items are its entries), "array" (value instanceof Array, items are
\* its members), "elements" (a resource with an elements property, items are its
\* members), or the termType of a plain term. value: the term's value. runs:
\* whether componentRunner.runConfig returns for this resource (it throws
\* otherwise). An entry of a fields object has kind "entry", its k in key and
\* its v, when it has one, as the only member of items.
ArgValue(kind, value, items, runs, key) ==
    [kind |-> kind, value |-> value, items |-> items, runs |-> runs, key |-> key]

LiteralArg(v) == ArgValue("Literal", v, <<>>, FALSE, Absent)
NodeArg(termType, iri, runs) == ArgValue(termType, iri, <<>>, runs, Absent)
ArrayArg(items) == ArgValue("array", "", items, FALSE, Absent)
ElementsArg(items, runs) == ArgValue("elements", "_:e", items, runs, Absent)
FieldsArg(entries) == ArgValue("fields", "_:f", entries, FALSE, Absent)
FieldEntry(key, v) == ArgValue("entry", "", v, FALSE, key)

\* value.termType; a resource with an elements property is a blank node
TermType(value) == IF value.kind = "elements" THEN "BlankNode" ELSE value.kind

\* What getArgumentValue returns (tag: "literal", "instance", "json", "seq",
\* "map") or the error it throws; log: what the call itself wrote with
\* console.error; calls: the resources it handed to componentRunner.runConfig
\* until it returned or threw, in the order of the calls.
EmptyMap == [x \in {} |-> ""]
ArgResult(tag, val, items, map) ==
    [err |-> "", tag |-> tag, val |-> val, items |-> items, map |-> map, log |-> <<>>,
     calls |-> <<>>]
ArgError(err) ==
    [err |-> err, tag |-> "", val |-> "", items |-> <<>>, map |-> EmptyMap, log |-> <<>>,
     calls |-> <<>>]

\* the callback of a later member that runs before that of an earlier one
LaterFirst(before, after) == after \o before

\* map and reduce call their callback for one member after the other, from the
\* first on: the calls made for the members so far, then those of the next
InTurn(before, after) == before \o after

\* componentRunner.runConfig(value) was called and ended as r tells
RunConfig(value, r) == [r EXCEPT !.calls = <<value.value>>]

\* console.error('An invalid argument value was found:...'); return JSON.stringify(value)
Stringified(value, log) ==
    [ArgResult("json", value.value, <<>>, EmptyMap) EXCEPT
        !.log = log \o <<"invalidArgument">>]

\* a runConfig whose error reaches the caller of getArgumentValue
RunConfigFailureThrown(value) == ArgError("runConfig")

\* catch (e) { console.error(e); } and what follows it
RunConfigFailure(value) == Stringified(value, <<"error">>)

\* data[key] = r
SetKey(map, key, r) ==
    [x \in (DOMAIN map) \cup {key} |-> IF x = key THEN r ELSE map[x]]

\* a key test that lets every term through
KeyIsLiteralAlways(entry) == TRUE

\* entry.k.termType === 'Literal'
KeyIsLiteral(entry) == entry.key.type = "Literal"

\* value instanceof Array
IsSequence(value) == value.kind = "array"

RECURSIVE GetArgumentValue(_)
RECURSIVE ReduceFields(_, _, _)
RECURSIVE MapArguments(_, _)

\* value.fields.reduce(..., {}) from entry i on, data being the map so far
ReduceFields(entries, i, data) ==
    IF i > Len(entries)
    THEN data
    ELSE LET entry == entries[i]
         IN  IF entry.key.type = "absent"
             THEN [ArgError("missingKey") EXCEPT !.calls = data.calls]
             ELSE IF ~KeyIsLiteral(entry)
             THEN [ArgError("nonLiteralKey") EXCEPT !.calls = data.calls]
             ELSE IF entry.items # <<>>
                  THEN LET r == GetArgumentValue(entry.items[1])
                       IN  IF r.err # ""
                           THEN [r EXCEPT !.calls = InTurn(data.calls, @)]
                           ELSE ReduceFields(entries, i + 1,
                                    [data EXCEPT !.map = SetKey(@, entry.key.value, r),
                                                 !.calls = InTurn(@, r.calls)])
                  ELSE ReduceFields(entries, i + 1, data)

\* items.map(getArgumentValue) from member i on
MapArguments(items, i) ==
    IF i > Len(items)
    THEN ArgResult("seq", "", <<>>, EmptyMap)
    ELSE LET r == GetArgumentValue(items[i])
         IN  IF r.err # ""
             THEN r
             ELSE LET rest == MapArguments(items, i + 1)
                  IN  IF rest.err # ""
                      THEN [rest EXCEPT !.calls = InTurn(r.calls, @)]
                      ELSE [rest EXCEPT !.items = <<r>> \o @,
                                        !.calls = InTurn(r.calls, @)]

GetArgumentValue(value) ==
    IF value.kind = "fields"
    THEN ReduceFields(value.items, 1, ArgResult("map", "", <<>>, EmptyMap))
    ELSE IF IsSequence(value)
    THEN MapArguments(value.items, 1)
    ELSE IF TermType(value) \in {"NamedNode", "BlankNode"}
    THEN IF value.runs
         THEN RunConfig(value, ArgResult("instance", value.value, <<>>, EmptyMap))
         ELSE RunConfig(value, RunConfigFailure(value))
    ELSE IF TermType(value) = "Literal"
    THEN ArgResult("literal", value.value, <<>>, EmptyMap)
    ELSE Stringified(value, <<>>)

\* componentDefinition.arguments: absent, or a resource with its list
NoArguments == [present |-> FALSE, list |-> <<>>]
Arguments(list) == [present |-> TRUE, list |-> list]

MakeArguments(arguments) ==
    IF arguments.present THEN MapArguments(arguments.list, 1)
    ELSE ArgResult("seq", "", <<>>, EmptyMap)

\* the argument values that are tried
ArgLeaves ==
    {LiteralArg("A"), LiteralArg("B"), NodeArg("NamedNode", "c1", TRUE),
     NodeArg("BlankNode", "_:b", FALSE), NodeArg("Variable", "v1", FALSE)}

ArgArrays == {ArrayArg(l) : l \in SeqsUpTo({LiteralArg("A"), LiteralArg("B"), NodeArg("NamedNode", "c1", TRUE)}, 2)}

\* the elements of the unit test, and a shorter one
ArgElements ==
    {ElementsArg(l, runs) :
        l \in {<<LiteralArg("A"), LiteralArg("B"), LiteralArg("C")>>, <<LiteralArg("B"), LiteralArg("A")>>},
        runs \in BOOLEAN}

ArgEntries ==
    {FieldEntry(key, v) :
        key \in {Absent, Lit("a"), Lit("b"), Named("n")},
        v \in {<<>>} \cup {<<x>> : x \in
                {LiteralArg("A"), LiteralArg("B"), NodeArg("NamedNode", "c1", TRUE),
                 NodeArg("BlankNode", "_:b", FALSE), ArrayArg(<<LiteralArg("A")>>),
                 FieldsArg(<<FieldEntry(Lit("a"), <<LiteralArg("B")>>)>>),
                 FieldsArg(<<FieldEntry(Named("n"), <<LiteralArg("B")>>)>>)}}}

ArgFields == {FieldsArg(es) : es \in SeqsUpTo(ArgEntries, MaxFields)}

\* arguments that refer to several configs, at the top and inside fields,
\* arrays and elements
ArgNested ==
    LET c1 == NodeArg("NamedNode", "c1", TRUE)
        c2 == NodeArg("BlankNode", "_:b", FALSE)
        c4 == NodeArg("NamedNode", "c4", TRUE)
    IN  {ArrayArg(<<c1, c2>>), ArrayArg(<<c2, c4, c1>>),
         ArrayArg(<<ArrayArg(<<c4, c1>>), c2>>),
         FieldsArg(<<FieldEntry(Lit("a"), <<c1>>), FieldEntry(Lit("b"), <<c4>>)>>),
         FieldsArg(<<FieldEntry(Lit("b"), <<c4>>), FieldEntry(Lit("a"), <<c1>>)>>),
         FieldsArg(<<FieldEntry(Lit("a"), <<ArrayArg(<<c2, c1>>)>>),
                     FieldEntry(Lit("b"), <<c4>>)>>),
         FieldsArg(<<FieldEntry(Lit("a"), <<c4>>), FieldEntry(Named("n"), <<c1>>)>>),
         FieldsArg(<<FieldEntry(Lit("a"),
                        <<FieldsArg(<<FieldEntry(Lit("a"), <<c1>>),
                                      FieldEntry(Lit("b"), <<c2>>)>>)>>),
                     FieldEntry(Lit("a"), <<c4>>)>>),
         ElementsArg(<<c1, c4>>, TRUE), ElementsArg(<<c4, c1>>, FALSE)}

ArgInputs ==
    {NoArguments}
    \cup {Arguments(<<x, y>>) :
            x \in ArgNested,
            y \in {NodeArg("NamedNode", "c3", TRUE),
                   ArrayArg(<<NodeArg("NamedNode", "c3", TRUE), NodeArg("NamedNode", "c1", TRUE)>>)}}
    \cup {Arguments(<<x, y>>) : x \in {NodeArg("NamedNode", "c3", TRUE)}, y \in ArgNested}
    \cup {Arguments(<<v>>) : v \in ArgFields \cup ArgArrays \cup ArgElements \cup ArgLeaves}
    \cup {Arguments(l) : l \in SeqsUpTo(ArgLeaves, 2)}
    \cup {Arguments(<<x, y>>) : x \in ArgArrays, y \in ArgElements}
    \cup {Arguments(<<x, y>>) :
            x \in {NodeArg("BlankNode", "_:b", FALSE), NodeArg("NamedNode", "c2", FALSE)},
            y \in {FieldsArg(<<FieldEntry(Lit("a"), <<NodeArg("NamedNode", "c2", FALSE)>>)>>),
                   FieldsArg(<<FieldEntry(Named("n"), <<LiteralArg("B")>>)>>),
                   ArrayArg(<<NodeArg("NamedNode", "c2", FALSE), LiteralArg("A")>>)}}

NotMade == ArgError("notCalled")

----------------------------------------------------------------------------
(* ComponentFactory: _getComponentFactory, create *)

ComponentInstance == "lsdc:ComponentInstance"

\* the types property of a resource: undefined, or a list of type IRIs
NoTypes == [present |-> FALSE, values |-> {}]
Types(values) == [present |-> TRUE, values |-> values]

FactoryConfig(requireName, requireElement, types) ==
    [requireName |-> requireName, requireElement |-> requireElement, types |-> types]

ComponentDefinition(constructorMapping, types) ==
    [constructorMapping |-> constructorMapping, types |-> types]

\* a property holds a Resource object or is undefined; every object is truthy
Defined(term) == term # Absent

\* !types || types.indexOf(PREFIXES['lsdc'] + 'ComponentInstance') < 0
Constructable(types) == ~types.present \/ ComponentInstance \notin types.values

Factory(class, constructable) == [class |-> class, constructable |-> constructable]

\* a test that looks at requireName only
RequireNameOnly(config) == ~Defined(config.requireName)

\* !this._config.requireName && !this._config.requireElement
NamedConfig(config) == ~Defined(config.requireName) /\ ~Defined(config.requireElement)

GetComponentFactory(config, componentDefinition) ==
    IF NamedConfig(config)
    THEN IF ~Defined(componentDefinition.constructorMapping)
         THEN Factory("UnmappedNamedComponentFactory", Constructable(componentDefinition.types))
         ELSE Factory("MappedNamedComponentFactory", Constructable(componentDefinition.types))
    ELSE Factory("UnnamedComponentFactory", Constructable(config.types))

FactoryTypes == {NoTypes, Types({"CT"}), Types({"CT", ComponentInstance})}

FactoryConfigs ==
    {FactoryConfig(requireName, requireElement, types) :
        requireName \in {Absent, Lit(""), Lit("lib")},
        requireElement \in {Absent, Lit(""), Lit("El")},
        types \in FactoryTypes}

ComponentDefinitions ==
    {ComponentDefinition(constructorMapping, types) :
        constructorMapping \in {Absent, Named("mapping")},
        types \in FactoryTypes}

NoFactoryInput ==
    [config |-> FactoryConfig(Absent, Absent, NoTypes),
     componentDefinition |-> ComponentDefinition(Absent, NoTypes)]

NoFactory == Factory("", FALSE)

----------------------------------------------------------------------------
(* instantiate on objects: settings and blacklists as objects with an identity,
   so that a write to an object is seen through every reference to it *)

\* objects of one kind per behaviour
MaxObjects == 4

\* bl: the blacklist objects, each the set of its keys; st: the settings
\* objects, hasBL telling whether the object has the key resourceBlacklist and bl
\* which blacklist object it refers to; cached: the keys of this.instances;
\* frames: the create calls that are running, innermost last; seen: for every
\* instantiate call, what it was called with and what it read
EmptyHeap == [bl |-> <<>>, st |-> <<>>, cached |-> {}, frames |-> <<>>, seen |-> {}]

\* a caller's new settings object: {} or { resourceBlacklist: { ...keys } }
NewSettings(h, hasBL, keys) ==
    IF hasBL
    THEN [h EXCEPT !.bl = Append(@, keys),
                   !.st = Append(@, [hasBL |-> TRUE, bl |-> Len(h.bl) + 1])]
    ELSE [h EXCEPT !.st = Append(@, [hasBL |-> FALSE, bl |-> 0])]

\* the keys of settings.resourceBlacklist || {}
BlacklistKeys(h, s) == IF h.st[s].hasBL THEN h.bl[h.st[s].bl] ELSE {}

\* a subBlackList that is the caller's blacklist object itself
CallerBlacklistObject(h, s) == IF h.st[s].hasBL THEN h.st[s].bl ELSE Len(h.bl) + 1

\* const subBlackList = { ...resourceBlacklist }: the object the name refers
\* to is a new one
SubBlackListObject(h, s) == Len(h.bl) + 1

\* { ...resourceBlacklist } and subBlackList[configResource.value] = true
WithSubBlackList(h, c, s) ==
    LET copied == [h EXCEPT !.bl = Append(@, BlacklistKeys(h, s))]
    IN  [copied EXCEPT !.bl[SubBlackListObject(h, s)] = @ \cup {c}]

\* { resourceBlacklist: subBlackList, ...settings }: a new settings object
WithSubSettings(h, s, subBlackList) ==
    [h EXCEPT !.st = Append(@, [hasBL |-> TRUE,
                                 bl |-> IF h.st[s].hasBL THEN h.st[s].bl ELSE subBlackList])]

\* what an instantiate call was given: parent is the settings object of the
\* create call that made it (0: an outside caller), pos the position of the
\* argument, s the settings object, keys the blacklist it read
Seen(parent, pos, c, s, keys) ==
    [parent |-> parent, pos |-> pos, c |-> c, s |-> s, keys |-> keys]

\* instantiate(configResource c, settings object s) up to the create call
InstantiateObjects(h, c, s, parent, pos) ==
    LET noted == [h EXCEPT !.seen = @ \cup {Seen(parent, pos, c, s, BlacklistKeys(h, s))}]
        run == GetRawConfig(configPreprocessors, ConfigResource(c))
    IN  IF c \in BlacklistKeys(h, s) THEN noted
        ELSE IF IsA(ConfigResource(c), "Variable") THEN noted
        ELSE IF c \in h.cached THEN noted
        ELSE LET sub == WithSubBlackList(noted, c, s)
             IN  IF ~run.err.ok
                 THEN [sub EXCEPT !.cached = @ \cup {c}]
                 ELSE [WithSubSettings(sub, s, SubBlackListObject(h, s)) EXCEPT
                          !.cached = @ \cup {c},
                          !.frames = Append(@, [c |-> c, st |-> Len(h.st) + 1, argi |-> 0,
                                                arguments |-> run.raw.arguments])]

\* no outside call has been answered by the checks yet
NoCheck ==
    [c |-> "", variable |-> FALSE, bl |-> FALSE, cached |-> FALSE, r |-> AbsentSlot,
     s |-> MkSettings(FALSE, {}, "")]

NoStep == [list |-> <<>>, target |-> "", value |-> ListValue(<<>>)]

NoStepRun == [err |-> "", list |-> <<>>]

InitPure ==
    /\ stepIn = NoStep
    /\ stepOut = NoStepRun
    /\ argIn = NoArguments
    /\ argOut = NotMade
    /\ lastCheck = NoCheck
    /\ factoryIn = NoFactoryInput
    /\ factoryOut = NoFactory
    /\ heap = EmptyHeap

HandleStep ==
    /\ stepIn = NoStep
    /\ \E list \in StepLists, target \in StepTargets, value \in StepValues :
        /\ stepIn' = [list |-> list, target |-> target, value |-> value]
        /\ stepOut' = OverrideListInsertAfter(list, target, value)
    /\ UNCHANGED <<configPreprocessors, instances, cons, stack, preRuns, results,
                   rawIn, rawOut, loaderVars, argIn, argOut, lastCheck, factoryIn, factoryOut, heap>>

MakeArgumentsCall ==
    /\ argOut = NotMade
    /\ \E arguments \in ArgInputs :
        /\ argIn' = arguments
        /\ argOut' = MakeArguments(arguments)
    /\ UNCHANGED <<configPreprocessors, instances, cons, stack, preRuns, results,
                   rawIn, rawOut, loaderVars, stepIn, stepOut, lastCheck, factoryIn, factoryOut, heap>>

InitPool ==
    /\ instances = [c \in IRIs |-> AbsentSlot]
    /\ cons = [c \in IRIs |-> <<>>]
    /\ stack = <<>>
    /\ preRuns = [c \in IRIs |-> 0]
    /\ results = [c \in IRIs |-> {}]

Init ==
    /\ configPreprocessors \in PoolPreLists
    /\ InitPool
    /\ rawIn = NoResource
    /\ rawOut = NoRun
    /\ InitLoader
    /\ InitPure

Next == Call \/ NestedCall \/ ReturnPromise \/ Complete

Spec == Init /\ [][Next]_vars

----------------------------------------------------------------------------
(* getRawConfig on its own: any preprocessor list, any config *)

RunGetRawConfig ==
    /\ rawIn = NoResource
    /\ \E config \in RawInputs :
        /\ rawIn' = config
        /\ rawOut' = GetRawConfig(configPreprocessors, config)
    /\ UNCHANGED <<configPreprocessors, instances, cons, stack, preRuns, results, loaderVars, pureVars>>

InitRaw ==
    /\ configPreprocessors \in ListsUpTo(MaxPre)
    /\ InitPool
    /\ rawIn = NoResource
    /\ rawOut = NoRun
    /\ InitLoader
    /\ InitPure

NextRaw == RunGetRawConfig

SpecRaw == InitRaw /\ [][NextRaw]_vars

----------------------------------------------------------------------------
(* Loader: registration and finalization *)

notLoaderVars ==
    <<configPreprocessors, instances, cons, stack, preRuns, results, rawIn, rawOut, pureVars>>

\* a call returns or throws: the loader fields it wrote, and its outcome (fin:
\* whether the loader was finalized when the call ran)
Finish(op, arg, st) ==
    /\ componentResources' = st.cr
    /\ moduleRef' = st.mr
    /\ parameters' = st.ps
    /\ objectFields' = st.of
    /\ configProperties' = st.cv
    /\ registrationFinalized' = st.fin
    /\ loaderInstances' = st.inst
    /\ runTypeConfigs' = st.rtc
    /\ creations' = st.made
    /\ loaderOut' = [op |-> op, arg |-> arg, err |-> st.err,
                     val |-> st.val, info |-> st.info, n |-> loaderOut.n + 1,
                     fin |-> registrationFinalized]

RegisterComponentResource ==
    /\ nCalls < MaxCalls
    /\ \E k \in CompIRIs :
        Finish("registerComponentResource", k, RegisterComponentResourceOn(Current, k))
    /\ nCalls' = nCalls + 1
    /\ UNCHANGED <<objResources, streamPc, loaderSettings, notLoaderVars>>

RegisterModuleResource ==
    /\ nCalls < MaxCalls
    /\ \E m \in Modules :
        Finish("registerModuleResource", m, RegisterModuleResourceOn(Current, m))
    /\ nCalls' = nCalls + 1
    /\ UNCHANGED <<objResources, streamPc, loaderSettings, notLoaderVars>>

\* objectLoader.resources after the import of a stream
Imported(res, mods) ==
    res \o SelectSeq(mods, LAMBDA m : ~Includes(res, m))

\* registerModuleResourcesStream up to the end of its await: the stream is
\* imported into objectLoader
StreamImport ==
    /\ nCalls < MaxCalls
    /\ streamPc = NoStream
    /\ \E s \in Streams :
        /\ streamPc' = [stream |-> s, fin |-> registrationFinalized]
        /\ objResources' = Imported(objResources, StreamModules(s))
    /\ nCalls' = nCalls + 1
    /\ UNCHANGED <<componentResources, moduleRef, parameters, objectFields, configProperties,
                   registrationFinalized, loaderInstances, runTypeConfigs, creations, loaderOut, loaderSettings,
                   notLoaderVars>>

\* registerModuleResourcesStream after its await: every module resource of
\* objectLoader is registered
StreamRegister ==
    /\ streamPc # NoStream
    /\ Finish("registerModuleResourcesStream", streamPc.stream,
              RegisterModulesFrom(Current, objResources, 1))
    /\ streamPc' = NoStream
    /\ UNCHANGED <<objResources, nCalls, loaderSettings, notLoaderVars>>

FinalizeRegistration ==
    /\ nCalls < MaxCalls
    /\ Finish("finalizeRegistration", "", FinalizeRegistrationOn(Current))
    /\ nCalls' = nCalls + 1
    /\ UNCHANGED <<objResources, streamPc, loaderSettings, notLoaderVars>>

CheckFinalizeRegistration ==
    /\ nCalls < MaxCalls
    /\ Finish("checkFinalizeRegistration", "", CheckFinalizeRegistrationOn(Current))
    /\ nCalls' = nCalls + 1
    /\ UNCHANGED <<objResources, streamPc, loaderSettings, notLoaderVars>>

LoaderInstantiate ==
    /\ nCalls < MaxCalls
    /\ \E g \in LConfigs, s \in LoaderSettings :
        /\ Finish("instantiate", g, InstantiateOn(Current, g, s))
        /\ loaderSettings' = s
    /\ nCalls' = nCalls + 1
    /\ UNCHANGED <<objResources, streamPc, notLoaderVars>>

GetConfigConstructor ==
    /\ nCalls < MaxCalls
    /\ \E g \in LConfigs \ {"LV"} :
        Finish("getConfigConstructor", g, GetConfigConstructorOn(Current, g))
    /\ nCalls' = nCalls + 1
    /\ UNCHANGED <<objResources, streamPc, loaderSettings, notLoaderVars>>

InstantiateManually ==
    /\ nCalls < MaxCalls
    /\ \E k \in CompIRIs :
        Finish("instantiateManually", k,
               InstantiateManuallyOn(Current, k, MkLSettings(FALSE, {}, "", FALSE, FALSE)))
    /\ nCalls' = nCalls + 1
    /\ UNCHANGED <<objResources, streamPc, loaderSettings, notLoaderVars>>

InitLoaderSpec ==
    /\ configPreprocessors = <<>>
    /\ InitPool
    /\ rawIn = NoResource
    /\ rawOut = NoRun
    /\ InitLoader
    /\ InitPure

NextLoader ==
    \/ RegisterComponentResource
    \/ RegisterModuleResource
    \/ StreamImport
    \/ StreamRegister
    \/ FinalizeRegistration
    \/ CheckFinalizeRegistration
    \/ LoaderInstantiate
    \/ GetConfigConstructor
    \/ InstantiateManually

SpecLoader == InitLoaderSpec /\ [][NextLoader]_vars

----------------------------------------------------------------------------
(* The Loader's finalization over components that inherit in cycles, through
   components without parameters, and through constructor arguments *)

RegisterInheritComponent ==
    /\ nCalls < MaxCalls
    /\ \E k \in InheritComps :
        Finish("registerComponentResource", k, RegisterComponentResourceOn(Current, k))
    /\ nCalls' = nCalls + 1
    /\ UNCHANGED <<objResources, streamPc, loaderSettings, notLoaderVars>>

NextInherit == RegisterInheritComponent \/ FinalizeRegistration

SpecInherit == InitLoaderSpec /\ [][NextInherit]_vars

----------------------------------------------------------------------------
(* The Loader around its finalization, with components whose parameters inherit
   values from the configs of other components. The module M5 of these
   components has been registered. *)

\* the loader after construction
NewLoader ==
    LoaderState(<<>>, [k \in AllComps |-> ""], [k \in AllComps |-> InitialParameters(k)],
                FALSE, [g \in AllConfigs |-> ""], [k \in AllComps |-> <<>>], <<>>,
                [o \in Objects |-> InitialFields(o)],
                [g \in AllConfigs |-> [q \in ValueParameters |-> InitialValues(g, q)]])

LoadedValueModule == RegisterModuleResourceOn(NewLoader, "M5")

InitFrozen ==
    /\ configPreprocessors = <<>>
    /\ InitPool
    /\ rawIn = NoResource
    /\ rawOut = NoRun
    /\ InitPure
    /\ componentResources = LoadedValueModule.cr
    /\ moduleRef = LoadedValueModule.mr
    /\ parameters = LoadedValueModule.ps
    /\ objectFields = LoadedValueModule.of
    /\ configProperties = LoadedValueModule.cv
    /\ registrationFinalized = LoadedValueModule.fin
    /\ objResources = <<>>
    /\ streamPc = NoStream
    /\ loaderInstances = LoadedValueModule.inst
    /\ runTypeConfigs = LoadedValueModule.rtc
    /\ creations = LoadedValueModule.made
    /\ loaderOut = NoCall
    /\ loaderSettings = MkLSettings(FALSE, {}, "", FALSE, FALSE)
    /\ nCalls = 0

GetValueConfigConstructor ==
    /\ nCalls < MaxCalls
    /\ \E g \in ValueConfigs :
        Finish("getConfigConstructor", g, GetConfigConstructorOn(Current, g))
    /\ nCalls' = nCalls + 1
    /\ UNCHANGED <<objResources, streamPc, loaderSettings, notLoaderVars>>

InstantiateValueConfig ==
    /\ nCalls < MaxCalls
    /\ \E g \in ValueConfigs :
        Finish("instantiate", g, InstantiateOn(Current, g, MkLSettings(FALSE, {}, "", FALSE, FALSE)))
    /\ nCalls' = nCalls + 1
    /\ UNCHANGED <<objResources, streamPc, loaderSettings, notLoaderVars>>

InstantiateValueComponent ==
    /\ nCalls < MaxCalls
    /\ \E k \in ValueComps :
        Finish("instantiateManually", k,
               InstantiateManuallyOn(Current, k, MkLSettings(FALSE, {}, "", FALSE, FALSE)))
    /\ nCalls' = nCalls + 1
    /\ UNCHANGED <<objResources, streamPc, loaderSettings, notLoaderVars>>

NextFrozen ==
    \/ FinalizeRegistration
    \/ RegisterComponentResource
    \/ RegisterModuleResource
    \/ GetValueConfigConstructor
    \/ InstantiateValueConfig
    \/ InstantiateValueComponent

SpecFrozen == InitFrozen /\ [][NextFrozen]_vars

----------------------------------------------------------------------------
(* The override step on its own: any list, target and value *)

InitStep ==
    /\ configPreprocessors = <<>>
    /\ InitPool
    /\ rawIn = NoResource
    /\ rawOut = NoRun
    /\ InitLoader
    /\ InitPure

NextStep == HandleStep

SpecStep == InitStep /\ [][NextStep]_vars

----------------------------------------------------------------------------
(* The pool, called with any resource: a resource of the graph, or a resource of
   the same value that is typed Variable *)

AsVariable(c) == [ConfigResource(c) EXCEPT !.types = @ \cup {"Variable"}]

\* the settings of these calls: none, and a blacklist
OrderSettings == {MkSettings(FALSE, {}, "x"), MkSettings(TRUE, {"B", "V"}, "x")}

\* settings with another binding, passed with the Variable resource of value B
OtherBinding == MkSettings(FALSE, {}, "y")

\* the values of the resources of these calls
OrderIRIs == {"B", "X", "V"}

\* an outside caller calls instantiate(res, s) when no other code is running
CallResource ==
    /\ stack = <<>>
    /\ \E c \in OrderIRIs, s \in OrderSettings \cup {OtherBinding} :
        \E res \in {x \in {ConfigResource(c), AsVariable(c)} :
                        s = OtherBinding => (c = "B" /\ IsA(x, "Variable"))} :
            IF EarlyReturn(res, s) # AbsentSlot
            THEN /\ Hand(c, s, TopCaller, cons, EarlyReturn(res, s))
                 /\ lastCheck' = [c |-> c, variable |-> IsA(res, "Variable"),
                                  bl |-> c \in ResourceBlacklist(s), cached |-> InCache(c),
                                  r |-> EarlyReturn(res, s), s |-> s]
                 /\ instances' = AfterCheck(c, EarlyReturn(res, s))
                 /\ UNCHANGED <<stack, preRuns>>
            ELSE /\ Enter(c, s, TopCaller, cons)
                 /\ UNCHANGED lastCheck
    /\ UNCHANGED <<configPreprocessors, rawIn, rawOut, loaderVars, stepIn, stepOut, argIn, argOut,
                   factoryIn, factoryOut, heap>>

NextOrder == CallResource \/ NestedCall \/ ReturnPromise \/ Complete

InitOrder ==
    /\ configPreprocessors = <<"first", "second">>
    /\ InitPool
    /\ rawIn = NoResource
    /\ rawOut = NoRun
    /\ InitLoader
    /\ InitPure

SpecOrder == InitOrder /\ [][NextOrder]_vars

----------------------------------------------------------------------------
(* ComponentFactory.create on its own: any config and component definition *)

\* new ComponentFactory(moduleDefinition, componentDefinition, config).create()
CreateCall ==
    /\ factoryOut = NoFactory
    /\ \E config \in FactoryConfigs, componentDefinition \in ComponentDefinitions :
        /\ factoryIn' = [config |-> config, componentDefinition |-> componentDefinition]
        /\ factoryOut' = GetComponentFactory(config, componentDefinition)
    /\ UNCHANGED <<configPreprocessors, instances, cons, stack, preRuns, results,
                   rawIn, rawOut, loaderVars, stepIn, stepOut, argIn, argOut, lastCheck, heap>>

NextFactory == CreateCall

SpecFactory == InitStep /\ [][NextFactory]_vars

----------------------------------------------------------------------------
(* instantiate on objects: outside callers with their own settings objects *)

HeapUnchanged ==
    UNCHANGED <<configPreprocessors, instances, cons, stack, preRuns, results,
                rawIn, rawOut, loaderVars, stepIn, stepOut, argIn, argOut, lastCheck,
                factoryIn, factoryOut>>

\* an outside caller makes a settings object and calls instantiate with it
CallWithNewSettings ==
    /\ heap.frames = <<>>
    /\ Len(heap.st) < MaxObjects - 1
    /\ Len(heap.bl) < MaxObjects - 1
    /\ \E c \in IRIs, s \in TopSettings :
        heap' = InstantiateObjects(NewSettings(heap, s.hasBL, s.bl), c, Len(heap.st) + 1, 0, 0)
    /\ HeapUnchanged

\* an outside caller calls instantiate with a settings object it used before
CallWithSameSettings ==
    /\ heap.frames = <<>>
    /\ Len(heap.st) < MaxObjects
    /\ Len(heap.bl) < MaxObjects
    /\ \E c \in IRIs, s \in DOMAIN heap.st :
        /\ \A x \in heap.seen : x.s = s => x.parent = 0
        /\ \E x \in heap.seen : x.s = s
        /\ heap' = InstantiateObjects(heap, c, s, 0, 0)
    /\ HeapUnchanged

\* the create call resolves its next argument with the settings it was given
InstantiateArgument ==
    /\ heap.frames # <<>>
    /\ LET n == Len(heap.frames)
           f == heap.frames[n]
       IN  /\ f.argi < Len(f.arguments)
           /\ Len(heap.st) < MaxObjects
           /\ Len(heap.bl) < MaxObjects
           /\ heap' = InstantiateObjects([heap EXCEPT !.frames[n].argi = @ + 1],
                                         f.arguments[f.argi + 1], f.st, f.st, f.argi + 1)
    /\ HeapUnchanged

\* the create call has resolved all its arguments
CreateDone ==
    /\ heap.frames # <<>>
    /\ LET f == heap.frames[Len(heap.frames)]
       IN  /\ f.argi = Len(f.arguments)
           /\ heap' = [heap EXCEPT !.frames = SubSeq(@, 1, Len(@) - 1)]
    /\ HeapUnchanged

NextObjects == CallWithNewSettings \/ CallWithSameSettings \/ InstantiateArgument \/ CreateDone

SpecObjects == InitOrder /\ [][NextObjects]_vars

----------------------------------------------------------------------------
(* _makeArguments on its own: any arguments *)

NextArgs == MakeArgumentsCall

SpecArgs == InitStep /\ [][NextArgs]_vars

----------------------------------------------------------------------------
(* Vocabulary of the properties *)

\* the IRIs that name configs, not variables
ConfigIRIs == {c \in IRIs : ~IsA(ConfigResource(c), "Variable")}

\* the createInstance calls made for IRI c
Created(c) == {n \in 1..Len(cons[c]) : cons[c][n].created}

\* a value handed to a caller: r, whether the call's settings blacklisted the
\* IRI, and whether they carried a resourceBlacklist key at all
Entry(r, bl, key) == [r |-> r, bl |-> bl, key |-> key]

\* the cache holds, under c, the promise of a failed getRawConfig
SyncRejected(c) ==
    IF instances[c].kind = "future" THEN ~Rec(instances[c]).created ELSE FALSE

\* the state of the cache slot of c
Phase(c) ==
    IF instances[c].kind = "future"
    THEN (IF Rec(instances[c]).state = "sync" THEN "pending" ELSE Rec(instances[c]).state)
    ELSE instances[c].kind

PhaseNext(c) ==
    IF instances'[c].kind = "future"
    THEN (IF cons'[instances'[c].iri][instances'[c].n].state = "sync" THEN "pending"
          ELSE cons'[instances'[c].iri][instances'[c].n].state)
    ELSE instances'[c].kind

----------------------------------------------------------------------------
(* C1 *)

\* a call that succeeded: it returned a value, or a promise that is resolved
Successful(x) == IF x.r.kind = "future" THEN Rec(x.r).state = "resolved" ELSE TRUE

\* C1 as stated: any two successful instantiate calls for the same config IRI
\* yield the identical instance, whatever their settings.
C1_AnyTwoCallsSameInstance ==
    \A c \in ConfigIRIs : \A x, y \in results[c] :
        (Successful(x) /\ Successful(y)) => x.r = y.r

\* C1, amended: two instantiate calls for the same config IRI whose settings do
\* not blacklist it and that both return a promise return the identical promise,
\* the one cached under the IRI, whatever else the settings hold.
C1_SameCachedPromise ==
    \A c \in ConfigIRIs : \A x, y \in results[c] :
        (~x.bl /\ ~y.bl /\ x.r.kind = "future" /\ y.r.kind = "future")
            => (x.r = y.r /\ x.r = instances[c])

\* a construction promise was returned to calls made under different settings
C1_Witness ==
    \E c \in ConfigIRIs :
        /\ Created(c) = {1}
        /\ {Entry(FutureR(c, 1), FALSE, FALSE), Entry(FutureR(c, 1), FALSE, TRUE)}
              \subseteq results[c]

----------------------------------------------------------------------------
(* C2 *)

\* C2 as stated: createInstance runs at most once per config IRI, and once the
\* cache has an entry for the IRI every caller is handed the entry of the cache.
C2_OnceAndEveryCallerGetsEntry ==
    /\ [](\A c \in ConfigIRIs : Cardinality(Created(c)) <= 1)
    /\ [][\A c \in ConfigIRIs :
            instances[c] # AbsentSlot
                => \A x \in results'[c] \ results[c] : x.r = instances'[c]]_vars

\* C2, amended: createInstance runs at most once per config IRI under any
\* interleaving, and every caller whose settings do not blacklist the IRI is
\* handed the entry of the cache (a caller that blacklists it gets the placeholder).
C2_AtMostOneConstruction ==
    /\ [](\A c \in ConfigIRIs : Cardinality(Created(c)) <= 1)
    /\ [][\A c \in ConfigIRIs : \A x \in results'[c] \ results[c] :
            IF x.bl THEN x.r = UndefinedR ELSE x.r = instances'[c]]_vars

\* a re-entrant call arrived while createInstance was on the stack, a second
\* call got the promise, and there is one construction
C2_Witness ==
    \E c \in ConfigIRIs :
        /\ Entry(SentinelR, FALSE, TRUE) \in results[c]
        /\ Entry(FutureR(c, 1), FALSE, FALSE) \in results[c]
        /\ Created(c) = {1}

----------------------------------------------------------------------------
(* C3 *)

\* C3: inside a construction, a reference to a config that is under
\* construction on the call path (the config itself or an ancestor) resolves to
\* the undefined placeholder, for any incoming settings and at any nesting depth.
C3_SelfReferenceGetsPlaceholder ==
    \A f \in Promises :
        IF Exists(f)
        THEN \A i \in 1..Len(Rec(f).kids) :
                Rec(f).raw.arguments[i] \in Rec(f).path => Rec(f).kids[i] = UndefinedR
        ELSE TRUE

----------------------------------------------------------------------------
(* C4 *)

\* C4: a call whose settings blacklist the config IRI returns the completed
\* placeholder promise; no getRawConfig run and no promise stored in the cache
\* stems from such a call.
C4_BlacklistedReturnsPlaceholder ==
    \A c \in IRIs :
        /\ \A x \in results[c] : x.bl => x.r = UndefinedR
        /\ \A n \in 1..Len(cons[c]) : ~(cons[c][n].s.hasBL /\ c \in cons[c][n].s.bl)
        /\ preRuns[c] = Len(cons[c])

\* a blacklisted call was answered and left the cache slot absent
C4_Witness ==
    \E c \in ConfigIRIs :
        /\ Entry(UndefinedR, TRUE, TRUE) \in results[c]
        /\ instances[c] = AbsentSlot
        /\ preRuns[c] = 0

----------------------------------------------------------------------------
(* C5 *)

\* C5: instantiate hands its caller a promise (placeholder, variable value or
\* cached construction), never the sentinel marker.
C5_NeverSentinel ==
    \A c \in IRIs : \A x \in results[c] : x.r.kind \in {"undefined", "variable", "future"}

----------------------------------------------------------------------------
(* C6 *)

\* C6 as stated: once getRawConfig has failed for c, every later call for c,
\* whatever its settings, returns the cached rejection.
C6_EveryLaterCallSameRejection ==
    [][\A c \in ConfigIRIs :
        SyncRejected(c) => \A x \in results'[c] \ results[c] : x.r = instances[c]]_vars

\* C6, amended: a getRawConfig failure for c is stored under c as a rejected
\* promise and returned; every later call for c whose settings do not blacklist
\* c returns that same promise (one that blacklists c gets the placeholder), and
\* no later call runs getRawConfig for c again.
C6_RejectionCached ==
    /\ [](\A c \in ConfigIRIs :
            (preRuns[c] >= 1 /\ ~GetRawConfig(configPreprocessors, ConfigResource(c)).err.ok)
                => /\ instances[c] = FutureR(c, 1)
                   /\ SyncRejected(c)
                   /\ Rec(instances[c]).state = "rejected"
                   /\ \E x \in results[c] : x.r = instances[c])
    /\ [][\A c \in ConfigIRIs :
            SyncRejected(c)
                => /\ instances'[c] = instances[c]
                   /\ preRuns'[c] = preRuns[c]
                   /\ cons'[c] = cons[c]
                   /\ \A x \in results'[c] \ results[c] :
                        IF x.bl THEN x.r = UndefinedR ELSE x.r = instances[c]]_vars

\* the rejection was returned to calls made under different settings, after
\* one getRawConfig run
C6_Witness ==
    \E c \in ConfigIRIs :
        /\ SyncRejected(c)
        /\ preRuns[c] = 1
        /\ {Entry(instances[c], FALSE, FALSE), Entry(instances[c], FALSE, TRUE)}
              \subseteq results[c]

----------------------------------------------------------------------------
(* C7 *)

\* C7 as stated, its last part: a rejected promise in the cache is what every
\* later caller is handed.
C7_RejectionToEveryLaterCaller ==
    [][\A c \in ConfigIRIs :
        Phase(c) = "rejected" => \A x \in results'[c] \ results[c] : x.r = instances[c]]_vars

\* C7, amended: a cache slot that holds a promise is never replaced or
\* removed, a resolved or rejected promise keeps its state, no later call starts
\* getRawConfig or createInstance for that IRI again, and every later caller
\* whose settings do not blacklist the IRI is handed that promise.
C7_SlotIsFinal ==
    [][\A c \in ConfigIRIs :
        instances[c].kind = "future"
            => /\ instances'[c] = instances[c]
               /\ Len(cons'[c]) = Len(cons[c])
               /\ preRuns'[c] = preRuns[c]
               /\ (Phase(c) \in {"resolved", "rejected"} => PhaseNext(c) = Phase(c))
               /\ \A x \in results'[c] \ results[c] :
                    IF x.bl THEN x.r = UndefinedR ELSE x.r = instances[c]]_vars

\* B's createInstance, on the stack now, asked for A after A's construction
\* had been rejected, and got A's rejected promise
C7_Witness ==
    /\ stack = <<FutureR("B", 1)>>
    /\ Exists(FutureR("A", 1))
    /\ Phase("A") = "rejected"
    /\ Created("A") = {1}
    /\ Rec(FutureR("B", 1)).kids = <<FutureR("A", 1)>>

----------------------------------------------------------------------------
(* C8 *)

----------------------------------------------------------------------------
(* C9, C10: getRawConfig *)

\* the list positions whose preprocessor can handle the config
Handlers(pre, config) == {i \in 1..Len(pre) : CanHandle(pre[i], config)}

Least(S) == CHOOSE i \in S : \A j \in S : i <= j

\* the list with the entries at positions i and j exchanged
Swap(pre, i, j) ==
    [k \in 1..Len(pre) |-> IF k = i THEN pre[j] ELSE IF k = j THEN pre[i] ELSE pre[k]]

C10_ValidationOnOutput ==
    \A p \in Preprocessors :
        rawOut.applied = <<p>>
            => /\ rawOut.validated = Transform(p, rawIn)
               /\ rawOut.err = ValidateRawConfig(Transform(p, rawIn))
               /\ Transform(p, rawIn).requireName.type = "absent"
                    => rawOut.err = Invalid("requireName", "missing")

\* a config that is valid as it comes in is rejected once the winning
\* preprocessor has taken its requireName away
C10_Witness ==
    /\ rawIn # NoResource
    /\ ValidateRawConfig(rawIn).ok
    /\ rawOut.applied = <<"strip">>
    /\ rawOut.err = Invalid("requireName", "missing")

----------------------------------------------------------------------------
(* C11: validateRawConfig *)

\* the fields of a config that break the rules: requireName must be a Literal,
\* requireElement and requireNoConstructor must be absent or a Literal
Offending(config) ==
    {f \in {"requireName"} : config[f].type # "Literal"}
    \cup {f \in {"requireElement", "requireNoConstructor"} :
            config[f].type \notin {"absent", "Literal"}}

\* C11: the config handed to validateRawConfig is accepted if and only if none
\* of its three fields breaks the rules; otherwise the error names a field that
\* breaks them and carries that config.
C11_ValidateRawConfig ==
    rawIn # NoResource
        => /\ rawOut.err.ok <=> Offending(rawOut.validated) = {}
           /\ ~rawOut.err.ok
                => /\ rawOut.err.field \in Offending(rawOut.validated)
                   /\ rawOut.context = rawOut.validated

\* a config with a Literal requireName and no requireElement was rejected for
\* a requireNoConstructor that is no Literal
C11_Witness ==
    /\ rawIn # NoResource
    /\ rawOut.validated.requireName.type = "Literal"
    /\ rawOut.validated.requireElement.type = "absent"
    /\ rawOut.err = Invalid("requireNoConstructor", "type")
    /\ rawOut.context = rawOut.validated

----------------------------------------------------------------------------
(* C12: registration after finalization *)

RegisterOps ==
    {"registerComponentResource", "registerModuleResource", "registerModuleResourcesStream"}

\* this step completes a registration call that was made on a finalized loader
RegistrationAfterFinalize ==
    /\ registrationFinalized
    /\ loaderOut'.n # loaderOut.n
    /\ loaderOut'.op \in RegisterOps
    /\ loaderOut'.op = "registerModuleResourcesStream" => streamPc.fin

\* C12 as stated: every registration call made after finalization fails with
\* the finalized error and leaves the component map unchanged.
C12_EveryRegistrationFails ==
    [][RegistrationAfterFinalize
        => /\ loaderOut'.err = "finalized"
           /\ componentResources' = componentResources]_vars

\* C12, amended: after finalization registerComponentResource and
\* registerModuleResource fail with the finalized error; so does
\* registerModuleResourcesStream when objectLoader holds a module resource after
\* the import, and otherwise it returns without error. In every case the
\* component map and the module back-references stay as they were.
C12_RegistrationAfterFinalize ==
    [][RegistrationAfterFinalize
        => /\ componentResources' = componentResources
           /\ moduleRef' = moduleRef
           /\ loaderOut'.err =
                IF loaderOut'.op = "registerModuleResourcesStream" /\ objResources = <<>>
                THEN "" ELSE "finalized"]_vars

\* a module was registered, the loader was finalized, and a later
\* registerModuleResource call failed with the finalized error
C12_Witness ==
    /\ registrationFinalized
    /\ Len(componentResources) >= 2
    /\ loaderOut.op = "registerModuleResource"
    /\ ModuleComponents(loaderOut.arg) # <<>>
    /\ loaderOut.err = "finalized"

----------------------------------------------------------------------------
(* C13: registerModuleResource before finalization *)

Range(seq) == {seq[i] : i \in 1..Len(seq)}

\* C13: a registerModuleResource call on a loader that is not finalized, for a
\* module with components, fails with the invalid-component error if and only
\* if one of the components carries none of the three component types; when it
\* returns, every component of the module has its module back-reference set to
\* the module and is in the component map under its own IRI.
C13_RegisterModule ==
    [][(/\ ~registrationFinalized
        /\ loaderOut'.n # loaderOut.n
        /\ loaderOut'.op = "registerModuleResource"
        /\ ModuleComponents(loaderOut'.arg) # <<>>)
        => LET comps == Range(ModuleComponents(loaderOut'.arg))
           IN  IF \A k \in comps : ComponentTypes(k) \cap {"AbstractClass", "Class", "ComponentInstance"} # {}
               THEN /\ loaderOut'.err = ""
                    /\ \A k \in comps :
                        /\ moduleRef'[k] = loaderOut'.arg
                        /\ Lookup(componentResources', k) = k
               ELSE loaderOut'.err = "invalidComponent"]_vars

\* both kinds of call happened: module M1 was registered with its components,
\* and the registration of M2, which holds an untyped component, failed
C13_Witness ==
    /\ ~registrationFinalized
    /\ loaderOut.op = "registerModuleResource"
    /\ loaderOut.arg = "M2"
    /\ loaderOut.err = "invalidComponent"
    /\ moduleRef["K1"] = "M1"
    /\ Lookup(componentResources, "K1") = "K1"

----------------------------------------------------------------------------
(* C14: checkFinalizeRegistration and finalizeRegistration *)

LoaderUnchanged ==
    /\ componentResources' = componentResources
    /\ moduleRef' = moduleRef
    /\ parameters' = parameters
    /\ registrationFinalized' = registrationFinalized

CompletedCall(op) == loaderOut'.n # loaderOut.n /\ loaderOut'.op = op

\* C14 as stated: every checkFinalizeRegistration call returns without error
\* and leaves the loader finalized, a call on a finalized loader changes
\* nothing, and finalizeRegistration on a finalized loader fails.
C14_EnsureFinalizedAlwaysFinalizes ==
    /\ [][CompletedCall("checkFinalizeRegistration")
            => /\ loaderOut'.err = ""
               /\ registrationFinalized'
               /\ registrationFinalized => LoaderUnchanged]_vars
    /\ [][(CompletedCall("finalizeRegistration") /\ registrationFinalized)
            => loaderOut'.err = "alreadyFinalized"]_vars

\* C14, amended: a checkFinalizeRegistration call on a loader that is not
\* finalized runs finalizeRegistration: it finalizes the loader, or fails with
\* the invalid-component error of parameter inheritance and leaves the loader
\* not finalized. On a finalized loader it returns without error and changes
\* nothing, whereas finalizeRegistration on a finalized loader fails and changes
\* nothing.
C14_EnsureFinalizedIdempotent ==
    /\ [][CompletedCall("checkFinalizeRegistration")
            => IF registrationFinalized
               THEN loaderOut'.err = "" /\ LoaderUnchanged
               ELSE /\ loaderOut'.err \in {"", "invalidComponent"}
                    /\ registrationFinalized' <=> loaderOut'.err = ""
                    /\ loaderOut'.err = "invalidComponent"
                        <=> \E k \in Range(componentResources) :
                                \E j \in Range(InheritValues(k.resource)) :
                                    ComponentTypes(j) = {"Other"}]_vars
    /\ [][(CompletedCall("finalizeRegistration") /\ registrationFinalized)
            => loaderOut'.err = "alreadyFinalized" /\ LoaderUnchanged]_vars

\* checkFinalizeRegistration was called on a loader that an earlier call had
\* finalized, with inherited parameters in place, and returned
C14_Witness ==
    /\ loaderOut.op = "checkFinalizeRegistration"
    /\ loaderOut.fin
    /\ loaderOut.err = ""
    /\ registrationFinalized
    /\ parameters["K1"] = <<"p1", "p2">>

----------------------------------------------------------------------------
(* C15: Loader.instantiate of a Variable *)

\* C15 as stated: instantiating the Variable yields the value that the settings
\* bind to it, and fails with the undefined-variable error when they bind none.
C15_VariableYieldsBinding ==
    [][(CompletedCall("instantiate") /\ loaderOut'.arg = "LV")
        => IF loaderSettings'.binding # ""
           THEN loaderOut'.err = "" /\ loaderOut'.val = loaderSettings'.binding
           ELSE loaderOut'.err = "undefinedVariable"]_vars

\* C15, amended: under settings that neither blacklist the Variable nor carry
\* serializations, instantiating it yields the bound value, or fails with the
\* undefined-variable error when there is no binding. Under a blacklist that
\* holds it the call yields the {} placeholder; under serializations it yields
\* the getVariableValue call text when asFunction is set and fails otherwise.
\* The instances cache is not written in any of these cases.
C15_VariableLookup ==
    [][(CompletedCall("instantiate") /\ loaderOut'.arg = "LV")
        => LET s == loaderSettings'
           IN  /\ loaderInstances' = loaderInstances
               /\ IF s.hasBL /\ "LV" \in s.bl
                  THEN loaderOut'.err = "" /\ loaderOut'.val = "{}"
                  ELSE IF s.serializations
                  THEN IF s.asFunction
                       THEN loaderOut'.err = "" /\ loaderOut'.val = "getVariableValue('LV')"
                       ELSE loaderOut'.err = "variableInCompilation"
                  ELSE IF s.binding # ""
                  THEN loaderOut'.err = "" /\ loaderOut'.val = s.binding
                  ELSE loaderOut'.err = "undefinedVariable"]_vars

\* the Variable was instantiated under the binding y and yielded y
C15_Witness ==
    /\ loaderOut.op = "instantiate"
    /\ loaderOut.arg = "LV"
    /\ loaderSettings = MkLSettings(FALSE, {}, "y", FALSE, FALSE)
    /\ loaderOut.err = ""
    /\ loaderOut.val = "y"

----------------------------------------------------------------------------
(* C16: ambiguous component types *)

\* the number of declared types of config g that are registered components
RegisteredTypes(g) ==
    Cardinality({i \in 1..Len(LConfigTypes(g)) : HasKey(componentResources, LConfigTypes(g)[i])})

\* this step completes a call that resolves the component of a config:
\* getConfigConstructor, or an instantiate call that is answered neither by the
\* blacklist nor by the instances cache
ResolvesComponent ==
    \/ CompletedCall("getConfigConstructor")
    \/ /\ CompletedCall("instantiate")
       /\ loaderOut'.arg # "LV"
       /\ ~(loaderSettings'.hasBL /\ loaderOut'.arg \in loaderSettings'.bl)
       /\ loaderInstances[loaderOut'.arg] = ""

\* C16: resolving the component of a config fails with the ambiguous-types
\* error exactly when the number of its declared types that are registered is
\* not one and the config has neither requireName nor requireElement; the error
\* lists all declared types of the config.
C16_AmbiguousTypes ==
    [][ResolvesComponent
        => LET g == loaderOut'.arg
           IN  IF /\ RegisteredTypes(g) # 1
                  /\ ~LConfigHasRequireName(g)
                  /\ ~LConfigHasRequireElement(g)
               THEN /\ loaderOut'.err = "ambiguousTypes"
                    /\ loaderOut'.info = LConfigTypes(g)
                    /\ creations' = creations
               ELSE loaderOut'.err # "ambiguousTypes"]_vars

\* the config with two declared types, both registered, was instantiated and
\* failed with the error that lists both
C16_Witness ==
    /\ loaderOut.op = "instantiate"
    /\ loaderOut.arg = "G2"
    /\ HasKey(componentResources, "K1")
    /\ HasKey(componentResources, "K2")
    /\ loaderOut.err = "ambiguousTypes"
    /\ loaderOut.info = <<"K1", "K2">>

----------------------------------------------------------------------------
(* C17: instantiateManually of an unknown component *)

\* a registered component inherits from a resource that is no valid component,
\* which makes finalizeRegistration fail
InheritanceBroken ==
    \E k \in Range(componentResources) :
        \E j \in Range(InheritValues(k.resource)) : ComponentTypes(j) = {"Other"}

\* C17 as stated: instantiateManually with an IRI that is not in the component
\* map fails with the unknown-component error and constructs nothing.
C17_UnknownComponentError ==
    [][(CompletedCall("instantiateManually") /\ ~HasKey(componentResources, loaderOut'.arg))
        => /\ loaderOut'.err = "unknownComponent"
           /\ creations' = creations]_vars

\* C17, amended: instantiateManually with an IRI that is not in the component
\* map constructs nothing and fails: with the unknown-component error, or, when
\* the loader is not finalized and its finalization fails, with the error of
\* the finalization, which runs before the look-up.
C17_UnknownComponentFails ==
    [][(CompletedCall("instantiateManually") /\ ~HasKey(componentResources, loaderOut'.arg))
        => /\ creations' = creations
           /\ loaderInstances' = loaderInstances
           /\ loaderOut'.val = ""
           /\ loaderOut'.err =
                IF ~registrationFinalized /\ InheritanceBroken
                THEN "invalidComponent" ELSE "unknownComponent"]_vars

\* with a module registered, instantiateManually was called with an IRI that
\* is not in the map: it finalized the loader and failed with unknown component
C17_Witness ==
    /\ loaderOut.op = "instantiateManually"
    /\ ~loaderOut.fin
    /\ registrationFinalized
    /\ Len(componentResources) >= 2
    /\ ~HasKey(componentResources, loaderOut.arg)
    /\ loaderOut.err = "unknownComponent"
    /\ creations = <<>>

----------------------------------------------------------------------------
(* C18: OverrideListInsertAfter *)

\* the position of the first occurrence of x in seq
FirstIndex(seq, x) ==
    CHOOSE i \in 1..Len(seq) : seq[i] = x /\ \A j \in 1..(i - 1) : seq[j] # x

\* C18: when the target occurs in the list, the step leaves the list up to and
\* including the first occurrence of the target, then the override value (the
\* items of the value in order when it is a list), then the rest of the list in
\* its order.
C18_InsertAfterFirstOccurrence ==
    (stepIn # NoStep /\ Includes(stepIn.list, stepIn.target))
        => LET i == FirstIndex(stepIn.list, stepIn.target)
           IN  /\ stepOut.err = ""
               /\ stepOut.list = SubSeq(stepIn.list, 1, i) \o stepIn.value.items
                                 \o SubSeq(stepIn.list, i + 1, Len(stepIn.list))

\* the second unit test: two values are inserted after the last element
C18_Witness ==
    /\ stepIn = [list |-> TestList, target |-> "list4",
                 value |-> ListValue(<<"newList", "newList2">>)]
    /\ stepOut.list = <<"list1", "list2", "list3", "list4", "newList", "newList2">>


----------------------------------------------------------------------------
(* Arguments of an unnamed component *)

\* _makeArguments has been called on argIn
ArgumentsMade == argOut # NotMade

\* the positions of the argument objects with fields in the arguments list
FieldsArguments == {i \in DOMAIN argIn.list : argIn.list[i].kind = "fields"}

\* the positions of the entries of a fields object that have a value
Valued(value) == {j \in DOMAIN value.items : value.items[j].items # <<>>}

\* the last entry with a value among those of a fields object that have key k
LastValued(value, k) ==
    CHOOSE j \in Valued(value) :
        /\ value.items[j].key.value = k
        /\ \A j2 \in Valued(value) : value.items[j2].key.value = k => j2 <= j

\* every entry of the fields object has a Literal key
AllKeysLiteral(value) == \A j \in DOMAIN value.items : value.items[j].key.type = "Literal"

TranslatedMember(member, out) ==
    /\ member.kind = "Literal" => out.tag = "literal" /\ out.val = member.value
    /\ (member.kind \in {"NamedNode", "BlankNode"} /\ member.runs)
          => out.tag = "instance" /\ out.val = member.value

\* C20: building the arguments yields one translated argument per member of
\* the arguments list, in list order, and none when the arguments are absent or
\* empty; an argument object with elements, like a list, is translated to the
\* sequence of its translated members in their order.
C20_ArgumentsInOrder ==
    (ArgumentsMade /\ argOut.err = "") =>
        /\ argOut.tag = "seq"
        /\ Len(argOut.items) = Len(argIn.list)
        /\ ~argIn.present => argOut.items = <<>>
        /\ \A i \in DOMAIN argIn.list :
            /\ TranslatedMember(argIn.list[i], argOut.items[i])
            /\ argIn.list[i].kind \in {"array", "elements"} =>
                /\ argOut.items[i].tag = "seq"
                /\ Len(argOut.items[i].items) = Len(argIn.list[i].items)
                /\ \A j \in DOMAIN argIn.list[i].items :
                      TranslatedMember(argIn.list[i].items[j], argOut.items[i].items[j])

----------------------------------------------------------------------------
(* C21 *)

\* C21: the settings handed to createInstance for a config are the caller's
\* settings with the blacklist replaced by the caller's blacklist plus the
\* config's IRI, whether or not the caller's settings carry a blacklist.
C21_SubSettingsAddIri ==
    \A f \in Promises :
        IF Exists(f)
        THEN Rec(f).created =>
                SubSettings(f.iri, Rec(f).s)
                    = MkSettings(TRUE, ResourceBlacklist(Rec(f).s) \cup {f.iri}, Rec(f).s.variables)
        ELSE TRUE

----------------------------------------------------------------------------
(* C22 *)

\* C22: instantiate checks the blacklist, then the Variable type, then the
\* cache: a call whose settings blacklist the resource's value returns the
\* undefined placeholder also when the resource is a Variable or the cache has
\* an entry under that value; a call for a Variable that is not blacklisted
\* returns the strategy's variable value also when the cache has an entry under
\* its value; only otherwise is the cache entry returned.
C22_CheckOrder ==
    /\ lastCheck # NoCheck =>
        /\ lastCheck.bl => lastCheck.r = UndefinedR
        /\ (~lastCheck.bl /\ lastCheck.variable)
              => lastCheck.r = VariableR(GetVariableValue(lastCheck.s, lastCheck.c))
        /\ (~lastCheck.bl /\ ~lastCheck.variable)
              => (lastCheck.cached /\ lastCheck.r.kind = "future" /\ lastCheck.r.iri = lastCheck.c)
    /\ \A c \in IRIs : \A x \in results[c] : x.bl => x.r = UndefinedR

\* a Variable whose value has a cache entry was resolved to its binding, and a
\* construction was handed the placeholder for a config that is on its call
\* path, hence in the cache
C22_Witness ==
    /\ lastCheck.variable /\ ~lastCheck.bl /\ lastCheck.cached
    /\ lastCheck.c \in ConfigIRIs
    /\ lastCheck.r.kind = "variable"
    /\ \E f \in Promises :
        IF Exists(f)
        THEN \E i \in 1..Len(Rec(f).kids) :
                /\ Rec(f).raw.arguments[i] \in Rec(f).path
                /\ instances[Rec(f).raw.arguments[i]] # AbsentSlot
                /\ Rec(f).kids[i] = UndefinedR
        ELSE FALSE

----------------------------------------------------------------------------
(* C23 *)

\* C23: the sentinel is in the cache under the config's IRI while
\* createInstance runs for it, so once a construction of an IRI has begun its
\* slot is never absent: no instantiate call finds it absent, none is handed an
\* absent slot, and no second construction of the IRI begins.
C23_SentinelBeforeCreateInstance ==
    /\ \A i \in 1..Len(stack) : instances[stack[i].iri] = SentinelR
    /\ \A c \in IRIs :
        /\ Created(c) # {} => instances[c] # AbsentSlot
        /\ Cardinality(Created(c)) <= 1
        /\ \A x \in results[c] : x.r # AbsentSlot

\* while createInstance runs for an IRI, a call for the same IRI has come in
\* and was answered from the slot
C23_Witness ==
    \E i \in 1..Len(stack) :
        /\ instances[stack[i].iri] = SentinelR
        /\ \E f \in Promises :
            IF Exists(f)
            THEN \E j \in 1..Len(Rec(f).kids) :
                    /\ Rec(f).raw.arguments[j] = stack[i].iri
                    /\ Rec(f).kids[j] = SentinelR
            ELSE FALSE

----------------------------------------------------------------------------
(* C24 *)

\* the components reachable from those of S along inheritValues, in n steps at most
RECURSIVE ReachableWithin(_, _)
ReachableWithin(S, n) ==
    IF n = 0 THEN S
    ELSE ReachableWithin(S \cup UNION {Range(InheritValues(k)) : k \in S}, n - 1)

\* the components k inherits from, directly or through other components
InheritsFrom(k) == ReachableWithin(Range(InheritValues(k)), Cardinality(AllComps))

\* the registered components
Registered == Range(Keys(componentResources))

\* C24: after finalize, the parameter list of every registered component is
\* its original list followed by the parameters of all components it inherits
\* from, directly or through any intermediate component (also one without
\* parameters of its own), that were not on it already, each appended once.
C24_TransitiveParameters ==
    registrationFinalized =>
        \A k \in Registered :
            /\ Len(parameters[k]) >= Len(InitialParameters(k))
            /\ SubSeq(parameters[k], 1, Len(InitialParameters(k))) = InitialParameters(k)
            /\ Range(parameters[k]) =
                  Range(InitialParameters(k))
                  \cup UNION {Range(InitialParameters(t)) : t \in InheritsFrom(k)}
            /\ Cardinality(Range(parameters[k])) = Len(parameters[k])

----------------------------------------------------------------------------
(* C25 *)

\* the components with parameters that inherit from themselves through a cycle
OnParameterCycle == {k \in AllComps : k \in InheritsFrom(k) /\ InitialParameters(k) # <<>>}

\* C25: parameter inheritance terminates on a cycle of inheritValues: a
\* finalizeRegistration call on a loader whose registered components lie on
\* such a cycle (each with parameters) completes and leaves the loader finalized.
C25_CycleTerminates ==
    (/\ loaderOut.op = "finalizeRegistration"
     /\ ~loaderOut.fin
     /\ Registered # {}
     /\ Registered \subseteq OnParameterCycle)
        => (loaderOut.err = "" /\ registrationFinalized)

----------------------------------------------------------------------------
(* C26 *)

\* the objects reachable from those of S along inheritValues, in n steps at most
RECURSIVE ObjectsWithin(_, _)
ObjectsWithin(S, n) ==
    IF n = 0 THEN S
    ELSE ObjectsWithin(S \cup UNION {Range(ObjectInheritValues(o)) : o \in S}, n - 1)

\* the objects o inherits from, directly or through other objects
ObjectInheritsFrom(o) == ObjectsWithin(Range(ObjectInheritValues(o)), Cardinality(Objects))

\* the objects in the constructor arguments of the registered components
RegisteredObjects == UNION {Range(ConstructorArguments(k).list) : k \in Registered}

\* a target without fields, ObjectMapping type, inheritValues and onParameter
Unusable(t) ==
    /\ InitialFields(t) = <<>>
    /\ ~IsObjectMapping(t)
    /\ ObjectInheritValues(t) = <<>>
    /\ ~HasOnParameter(t)

\* the components whose constructor arguments are a list of objects that
\* inherit along chains without a cycle
MappingComps ==
    {k \in AllComps :
        /\ ConstructorArguments(k).kind = "list"
        /\ InheritValues(k) = <<>>
        /\ \A o \in Range(ConstructorArguments(k).list) : o \notin ObjectInheritsFrom(o)}

\* C26: a finalizeRegistration call over components with constructor arguments
\* fails with the malformed-mapping error when an object of the arguments
\* inherits from a target that has no fields, is no ObjectMapping and has neither
\* inheritValues nor onParameter; otherwise it completes, every target is
\* accepted, and each object holds its own fields followed by the fields of its
\* targets that it did not hold already, each once.
C26_ObjectFieldInheritance ==
    (/\ loaderOut.op = "finalizeRegistration"
     /\ ~loaderOut.fin
     /\ Registered \subseteq MappingComps)
        => IF \E o \in RegisteredObjects : \E t \in ObjectInheritsFrom(o) : Unusable(t)
           THEN /\ loaderOut.err = "malformedMapping"
                /\ ~registrationFinalized
           ELSE /\ loaderOut.err = ""
                /\ registrationFinalized
                /\ \A o \in RegisteredObjects :
                    /\ SubSeq(objectFields[o], 1, Len(InitialFields(o))) = InitialFields(o)
                    /\ Range(objectFields[o]) =
                          Range(InitialFields(o))
                          \cup UNION {Range(InitialFields(t)) : t \in ObjectInheritsFrom(o)}
                    /\ Cardinality(Range(objectFields[o])) = Len(objectFields[o])

\* a finalization has accepted targets without fields and has appended the
\* fields of a target to an object that already held one of them
C26_Witness ==
    /\ loaderOut.op = "finalizeRegistration"
    /\ loaderOut.err = ""
    /\ registrationFinalized
    /\ Registered \subseteq MappingComps
    /\ \E o \in RegisteredObjects :
        /\ \E t \in Range(ObjectInheritValues(o)) : InitialFields(t) = <<>>
        /\ Len(objectFields[o]) > Len(InitialFields(o))
    /\ \E o \in RegisteredObjects :
        /\ InitialFields(o) # <<>>
        /\ \E t \in Range(ObjectInheritValues(o)) :
              Range(InitialFields(t)) \cap Range(InitialFields(o)) # {}
        /\ Len(objectFields[o]) > Len(InitialFields(o))

----------------------------------------------------------------------------
(* C27 *)

\* seq is what shorter was, with entries added at its end
Extends(seq, shorter) ==
    /\ Len(seq) >= Len(shorter)
    /\ SubSeq(seq, 1, Len(shorter)) = shorter

\* the parameters that the restrictions of the parameters in list let a
\* component inherit values for
InheritableParameters(list) ==
    UNION {Range(RestrictionOnParameter(r)) :
              r \in UNION {Range(ParameterInheritValues(q)) : q \in Range(list)}}

\* C27 as stated: once the loader is finalized, no call changes the component
\* map or the parameter list of a registered component.
C27_FrozenAfterFinalize ==
    [][registrationFinalized =>
          /\ componentResources' = componentResources
          /\ \A k \in Registered : parameters'[k] = parameters[k]]_vars

\* C27, amended: once the loader is finalized it stays finalized and no call
\* changes the component map; the parameter list of a registered component is
\* changed only by getConfigConstructor and instantiate, which append to it the
\* parameters whose values the config inherits, each once; registration calls
\* and instantiateManually leave every parameter list as it is.
C27_FrozenComponentMap ==
    [][registrationFinalized =>
          /\ registrationFinalized'
          /\ componentResources' = componentResources
          /\ moduleRef' = moduleRef
          /\ \A k \in AllComps :
                parameters'[k] # parameters[k] =>
                    /\ loaderOut'.op \in {"getConfigConstructor", "instantiate"}
                    /\ k \in Registered
                    /\ Extends(parameters'[k], parameters[k])
                    /\ Range(parameters'[k]) \ Range(parameters[k])
                          \subseteq InheritableParameters(parameters[k])
                    /\ Cardinality(Range(parameters'[k])) = Len(parameters'[k])]_vars

\* a call on the finalized loader has been the one call that copied inherited
\* values to its config, and the component of the config has a parameter more
\* than it was loaded with
C27_Witness ==
    /\ registrationFinalized
    /\ loaderOut.fin
    /\ loaderOut.op \in {"getConfigConstructor", "instantiate"}
    /\ loaderOut.err = ""
    /\ \E q \in ValueParameters :
        /\ InitialValues(loaderOut.arg, q) = <<>>
        /\ Len(configProperties[loaderOut.arg][q]) = 1
        /\ \E k \in Registered :
            /\ ~Includes(InitialParameters(k), q)
            /\ parameters[k] = Append(InitialParameters(k), q)

----------------------------------------------------------------------------
(* C28 *)

\* C28: when no preprocessor of the list can handle the config, getRawConfig
\* asks every one of them, applies none, validates the config itself and
\* returns it as it came in; a config that breaks the rules of validateRawConfig
\* is rejected although no preprocessor ran.
C28_UnhandledConfig ==
    (rawIn # NoResource /\ Handlers(configPreprocessors, rawIn) = {})
        => /\ rawOut.applied = <<>>
           /\ rawOut.consulted = configPreprocessors
           /\ rawOut.raw = rawIn
           /\ rawOut.validated = rawIn
           /\ rawOut.err.ok <=> Offending(rawIn) = {}
           /\ rawIn.requireName.type = "absent" => rawOut.err = Invalid("requireName", "missing")

\* a config that no preprocessor of a list of two can handle was rejected for
\* its missing requireName
C28_Witness ==
    /\ rawIn # NoResource
    /\ Len(configPreprocessors) = 2
    /\ Handlers(configPreprocessors, rawIn) = {}
    /\ rawOut.applied = <<>>
    /\ rawOut.err = Invalid("requireName", "missing")
    /\ rawOut.context = rawIn

----------------------------------------------------------------------------
(* C30 *)

\* the positions of the arguments list that hold a NamedNode or BlankNode whose
\* construction throws
FailingArguments ==
    {i \in DOMAIN argIn.list :
        /\ argIn.list[i].kind \in {"NamedNode", "BlankNode"}
        /\ ~argIn.list[i].runs}

\* C30: when the construction of a NamedNode or BlankNode argument throws,
\* getArgumentValue does not throw: it logs the error and returns the
\* stringified resource in the argument's place, and the arguments are built
\* with that substitute (unless another argument throws an error of its own).
C30_ConstructionErrorSwallowed ==
    (/\ ArgumentsMade
     /\ FailingArguments # {}
     /\ \A j \in DOMAIN argIn.list \ FailingArguments :
            GetArgumentValue(argIn.list[j]).err = "") =>
        /\ argOut.err = ""
        /\ Len(argOut.items) = Len(argIn.list)
        /\ \A i \in FailingArguments :
            /\ argOut.items[i].tag = "json"
            /\ argOut.items[i].val = argIn.list[i].value
            /\ argOut.items[i].log # <<>>
            /\ argOut.items[i].log[1] = "error"

\* the second of two arguments could not be constructed; the first was
\* translated, the second replaced by its string
C30_Witness ==
    /\ ArgumentsMade
    /\ Len(argIn.list) = 2
    /\ FailingArguments = {2}
    /\ argOut.err = ""
    /\ argOut.items[1].tag \in {"literal", "instance"}
    /\ argOut.items[2].tag = "json"
    /\ argOut.items[2].log = <<"error", "invalidArgument">>

----------------------------------------------------------------------------
(* C29 *)

FactoryCreated == factoryOut # NoFactory

HasRequire ==
    \/ factoryIn.config.requireName # Absent
    \/ factoryIn.config.requireElement # Absent

HasConstructorMapping == factoryIn.componentDefinition.constructorMapping # Absent

----------------------------------------------------------------------------
(* C31 *)

RECURSIVE References(_)
RECURSIVE ReferencesOf(_, _)

\* the references to configs in the members of items from member i on, member
\* by member
ReferencesOf(items, i) ==
    IF i > Len(items) THEN <<>> ELSE References(items[i]) \o ReferencesOf(items, i + 1)

\* the references to configs that occur in an argument, in a left-to-right,
\* depth-first traversal: a NamedNode or BlankNode is a reference, the fields of
\* an object are gone through in field order, the members of an array or of an
\* elements object in member order
References(value) ==
    IF value.kind \in {"fields", "array", "entry"} THEN ReferencesOf(value.items, 1)
    ELSE IF value.kind = "elements" THEN <<value.value>> \o ReferencesOf(value.items, 1)
    ELSE IF value.kind \in {"NamedNode", "BlankNode"} THEN <<value.value>>
    ELSE <<>>

RECURSIVE HasElements(_)
HasElements(value) ==
    \/ value.kind = "elements"
    \/ \E i \in DOMAIN value.items : HasElements(value.items[i])

IsPrefix(s, t) == Len(s) <= Len(t) /\ s = SubSeq(t, 1, Len(s))

\* s can be read off t from left to right
RECURSIVE IsSubsequence(_, _)
IsSubsequence(s, t) ==
    IF s = <<>> THEN TRUE
    ELSE IF t = <<>> THEN FALSE
    ELSE IF Head(s) = Head(t) THEN IsSubsequence(Tail(s), Tail(t))
    ELSE IsSubsequence(s, Tail(t))

ArgumentReferences == ReferencesOf(argIn.list, 1)

\* C31: within one construction the child configs are instantiated in the order
\* in which their references occur in a left-to-right, depth-first traversal of
\* the arguments: arguments-list order, then field or member order inside each
\* argument. The instantiations made are the references of the traversal in
\* that order; a construction that throws has made those of a first part of the
\* traversal, and the members of an elements object are the only references
\* that can be passed over.
C31_ChildrenInTraversalOrder ==
    ArgumentsMade =>
        /\ IsSubsequence(argOut.calls, ArgumentReferences)
        /\ (\A i \in DOMAIN argIn.list : ~HasElements(argIn.list[i])) =>
              /\ IsPrefix(argOut.calls, ArgumentReferences)
              /\ argOut.err = "" => argOut.calls = ArgumentReferences

\* three different children below a fields object that holds an array, and a
\* fourth as the next argument, were instantiated
C31_Witness ==
    /\ ArgumentsMade
    /\ argOut.err = ""
    /\ Len(argIn.list) = 2
    /\ argIn.list[1].kind = "fields"
    /\ argOut.calls = <<"_:b", "c1", "c4", "c3">>

----------------------------------------------------------------------------
(* C32 *)

\* the instantiate calls made for the arguments of one create call
Siblings(x, y) == x.parent # 0 /\ x.parent = y.parent /\ x.pos < y.pos

\* every object that exists keeps its content
ObjectsKept ==
    /\ \A i \in DOMAIN heap.bl : i \in DOMAIN heap'.bl /\ heap'.bl[i] = heap.bl[i]
    /\ \A j \in DOMAIN heap.st : j \in DOMAIN heap'.st /\ heap'.st[j] = heap.st[j]

\* C32: instantiate never mutates the caller's settings object or the caller's
\* blacklist: the extended blacklist is a fresh copy, so an IRI added for the
\* construction of one argument is not in the blacklist seen while a sibling
\* argument is constructed. No step changes a settings or blacklist object that
\* exists, and the calls for the arguments of one construction all read the
\* same blacklist.
C32_CallerObjectsUntouched ==
    /\ [][ObjectsKept]_vars
    /\ [](\A x, y \in heap.seen : Siblings(x, y) => x.keys = y.keys /\ x.s = y.s)

\* an argument was constructed with a blacklist extended by its own IRI, and
\* its later sibling read a blacklist without that IRI
C32_Witness ==
    \E x, y \in heap.seen :
        /\ Siblings(x, y)
        /\ x.c # y.c
        /\ x.c \notin y.keys
        /\ x.c \notin x.keys
        /\ \E i \in DOMAIN heap.bl : heap.bl[i] = x.keys \cup {x.c}

----------------------------------------------------------------------------
(* C33 *)

\* this step is an outside call that the blacklist check or the variable
\* check answered
AnsweredByCheck ==
    /\ lastCheck' # lastCheck
    /\ lastCheck'.bl \/ lastCheck'.variable

\* C33: an instantiate call that is answered by the blacklist check or by the
\* variable check leaves the instance cache unchanged: placeholders and variable
\* values are never stored, so the same Variable resource instantiated under two
\* different bindings yields the two different bound values.
C33_ChecksLeaveCache ==
    /\ [][AnsweredByCheck => instances' = instances]_vars
    /\ [](\A c \in IRIs : instances[c].kind \notin {"undefined", "variable"})
    /\ []((lastCheck.variable /\ ~lastCheck.bl)
            => lastCheck.r = VariableR(lastCheck.s.variables))

\* the same Variable resource was instantiated under the bindings x and y and
\* gave x and y; the last of the calls found a cache entry under its value
C33_Witness ==
    /\ \E c \in OrderIRIs :
        /\ {[r |-> VariableR("x"), bl |-> FALSE, key |-> FALSE],
            [r |-> VariableR("y"), bl |-> FALSE, key |-> FALSE]} \subseteq results[c]
        /\ lastCheck.c = c
        /\ lastCheck.variable /\ ~lastCheck.bl /\ lastCheck.cached
        /\ lastCheck.r = VariableR("y")
        /\ instances[c].kind = "future"

----------------------------------------------------------------------------
(* C34 *)

\* the position of the first component of module m that is not a valid component
FirstInvalid(m) ==
    CHOOSE j \in DOMAIN ModuleComponents(m) :
        /\ ~IsValidComponent(ModuleComponents(m)[j])
        /\ \A i \in 1..(j - 1) : IsValidComponent(ModuleComponents(m)[i])

\* C34: registering a module is not atomic: when it fails on an invalid
\* component, the components listed before it in the module stay registered in
\* the component map, and the invalid component keeps the module back-reference
\* that was set before it was validated. The components listed after it are
\* left as they were.
C34_RegisterModuleNotAtomic ==
    [][(/\ loaderOut'.n # loaderOut.n
        /\ loaderOut'.op = "registerModuleResource"
        /\ loaderOut'.err = "invalidComponent")
        => LET m == loaderOut'.arg
               comps == ModuleComponents(m)
               j == FirstInvalid(m)
           IN  /\ \A i \in 1..(j - 1) :
                    /\ Lookup(componentResources', comps[i]) = comps[i]
                    /\ moduleRef'[comps[i]] = m
               /\ moduleRef'[comps[j]] = m
               /\ Lookup(componentResources', comps[j]) = ""
               /\ \A i \in (j + 1)..Len(comps) :
                    /\ Lookup(componentResources', comps[i]) = Lookup(componentResources, comps[i])
                    /\ moduleRef'[comps[i]] = moduleRef[comps[i]]]_vars

\* the registration of M2 failed on N as the first call on the loader: K2,
\* listed before N, is registered with its back-reference, N has the
\* back-reference, K3, listed after N, has neither
C34_Witness ==
    /\ loaderOut.op = "registerModuleResource"
    /\ loaderOut.arg = "M2"
    /\ loaderOut.err = "invalidComponent"
    /\ Lookup(componentResources, "K2") = "K2"
    /\ moduleRef["K2"] = "M2"
    /\ moduleRef["N"] = "M2"
    /\ Lookup(componentResources, "N") = ""
    /\ Lookup(componentResources, "K3") = ""
    /\ moduleRef["K3"] = ""

----------------------------------------------------------------------------
(* C35 *)

\* this step completes a registration call that directly follows an
\* instantiateManually call
RegistrationAfterManually ==
    /\ loaderOut.op = "instantiateManually"
    /\ loaderOut'.n # loaderOut.n
    /\ loaderOut'.op \in {"registerComponentResource", "registerModuleResource"}

\* C35 as stated: instantiateManually runs checkFinalizeRegistration before it
\* looks up the component, so after any instantiateManually call, including one
\* that fails with the unknown-component error, the loader is finalized and
\* every later registration call fails.
C35_ManuallyAlwaysFinalizes ==
    /\ [][CompletedCall("instantiateManually") => registrationFinalized']_vars
    /\ [][registrationFinalized => registrationFinalized']_vars
    /\ [][RegistrationAfterManually => loaderOut'.err = "finalized"]_vars
    /\ [][RegistrationAfterFinalize => loaderOut'.err = "finalized"]_vars

\* C35, amended: instantiateManually runs checkFinalizeRegistration before it
\* looks up the component. When that finalization fails with the
\* invalid-component error of parameter inheritance, the call fails with it and
\* the loader stays as it was, not finalized; after every other
\* instantiateManually call, including one that fails with the
\* unknown-component error, the loader is finalized. A finalized loader stays
\* finalized, and every later registerComponentResource or
\* registerModuleResource call fails with the finalized error
\* (registerModuleResourcesStream fails only when the import left a module
\* resource to register).
C35_ManuallyFinalizesFirst ==
    /\ [][CompletedCall("instantiateManually")
            => /\ loaderOut'.err \in {"", "unknownComponent", "noModule", "invalidComponent"}
               /\ registrationFinalized' <=> loaderOut'.err # "invalidComponent"
               /\ loaderOut'.err = "invalidComponent"
                    => ~registrationFinalized /\ componentResources' = componentResources]_vars
    /\ [][registrationFinalized => registrationFinalized']_vars
    /\ [][RegistrationAfterManually
            => IF loaderOut.err = "invalidComponent"
               THEN loaderOut'.err # "finalized"
               ELSE loaderOut'.err = "finalized"]_vars
    /\ [][RegistrationAfterFinalize
            => loaderOut'.err =
                 IF loaderOut'.op = "registerModuleResourcesStream" /\ objResources = <<>>
                 THEN "" ELSE "finalized"]_vars

\* an instantiateManually call on a loader that was not finalized has failed
\* with the unknown-component error and left the loader finalized
C35_Witness ==
    /\ loaderOut.op = "instantiateManually"
    /\ loaderOut.err = "unknownComponent"
    /\ ~loaderOut.fin
    /\ registrationFinalized
    /\ componentResources # <<>>

----------------------------------------------------------------------------
(* C36 *)

\* the registered components among the types of config g, one per type
ResolvedTypes(g) ==
    {i \in DOMAIN LConfigTypes(g) : Lookup(componentResources, LConfigTypes(g)[i]) # ""}

\* this step completes an instantiate call for a config that has no cache entry
Uncached ==
    /\ CompletedCall("instantiate")
    /\ loaderOut'.arg \in ValueConfigs
    /\ loaderInstances[loaderOut'.arg] = ""

\* C36: when getConfigConstructor or the creation of the instance throws in
\* Loader.instantiate, no entry is written to the instance cache for that IRI,
\* so a later instantiate of the same config runs component resolution and
\* construction again instead of returning a cached error. A failed call leaves
\* the whole cache as it was, and every call for a config without an entry
\* resolves the config's types anew and either fails or makes one construction.
C36_FailureNotCached ==
    /\ [][(CompletedCall("instantiate") /\ loaderOut'.err # "")
            => /\ loaderInstances' = loaderInstances
               /\ loaderInstances[loaderOut'.arg] = ""
               /\ creations' = creations]_vars
    /\ [][Uncached
            => LET g == loaderOut'.arg
               IN  /\ \A i \in ResolvedTypes(g) :
                        runTypeConfigs'[LConfigTypes(g)[i]]
                            = Append(runTypeConfigs[LConfigTypes(g)[i]], g)
                   /\ loaderOut'.err = ""
                        => /\ Len(creations') = Len(creations) + 1
                           /\ loaderInstances'[g] # ""]_vars

\* the construction of a config threw twice: its type was resolved both times
\* and the cache has no entry for it
C36_Witness ==
    /\ loaderOut.op = "instantiate"
    /\ loaderOut.err = "createFailed"
    /\ loaderInstances[loaderOut.arg] = ""
    /\ \E k \in ValueComps : runTypeConfigs[k] = <<loaderOut.arg, loaderOut.arg>>
====
